---- MODULE Spec2Model ----
(***************************************************************************)
(* Model of the server action fetchStockDataAndNews of the stock-insight   *)
(* dashboard (actions.ts, Alpha Vantage revision) and of the helpers it    *)
(* calls.  One request is a state machine whose steps are the settlements  *)
(* of the upstream calls it awaits.                                         *)
(*                                                                         *)
(* Conventions                                                             *)
(*  - a JavaScript value is a record whose field names tell its type:      *)
(*    [undef |-> TRUE] is undefined, [nan |-> TRUE] is NaN, [str |-> s] a  *)
(*    string, [neg, m, c] a finite number;                                 *)
(*  - a finite number is sign, whole millions m and hundredths c below a   *)
(*    million (0 <= c < 10^8), so 1e6, 1e9 and 1e12 are exact;             *)
(*  - a date is the number of whole calendar days before "now";            *)
(*  - a message is a record [kind, ticker, ...] and the substring tests    *)
(*    the code makes on messages are made on the text of each template.    *)
(***************************************************************************)
EXTENDS Integers, Sequences, FiniteSets, TLC

(***************************************************************************)
(* Bounds of the model                                                     *)
(***************************************************************************)
\* longest article list the news provider returns in the model
MaxRawArticles == 2
\* number of distinct values Math.random() can take in the model
RandSteps == 2

(***************************************************************************)
(* JavaScript values                                                       *)
(***************************************************************************)
Undefined == [undef |-> TRUE]
Null == [null |-> TRUE]
NaN == [nan |-> TRUE]
\* Infinity and -Infinity
Infinite(neg) == [inf |-> TRUE, neg |-> neg]
IsInfinite(v) == DOMAIN v = {"inf", "neg"}
\* 10^21, the least number that String() writes with an exponent ("1e+21")
Sextillion == [e |-> 21]
Str(s) == [str |-> s]
Num(neg, m, c) == [neg |-> neg, m |-> m, c |-> c]
\* a number given in hundredths, |n| < 10^8
Cents(n) == IF n < 0 THEN Num(TRUE, 0, 0 - n) ELSE Num(FALSE, 0, n)
IsNum(v) == DOMAIN v = {"neg", "m", "c"}
IsStr(v) == DOMAIN v = {"str"}
IsZero(v) == IsNum(v) /\ v.m = 0 /\ v.c = 0
\* a < b on finite numbers
NumLess(a, b) ==
  LET absLess(x, y) == x.m < y.m \/ (x.m = y.m /\ x.c < y.c)
  IN  IF IsZero(a) /\ IsZero(b) THEN FALSE
      ELSE IF a.neg /\ ~b.neg THEN TRUE
      ELSE IF ~a.neg /\ b.neg THEN FALSE
      ELSE IF a.neg THEN absLess(b, a)
      ELSE absLess(a, b)
NumLeq(a, b) == ~NumLess(b, a)

(***************************************************************************)
(* Texts the provider sends in numeric fields, with what parseFloat makes  *)
(* of them.  Every other text parses to NaN.                               *)
(***************************************************************************)
NumericText ==
  [ t \in {"170.34", "1.23", "0.72", "169.11", "171.00", "168.50", "28.5",
           "6.13", "199.62", "164.08", "52164500", "2650000000000",
           "150.00", "160.00", "155.00"} |->
    CASE t = "170.34" -> Cents(17034)
      [] t = "1.23" -> Cents(123)
      [] t = "0.72" -> Cents(72)
      [] t = "169.11" -> Cents(16911)
      [] t = "171.00" -> Cents(17100)
      [] t = "168.50" -> Cents(16850)
      [] t = "28.5" -> Cents(2850)
      [] t = "6.13" -> Cents(613)
      [] t = "199.62" -> Cents(19962)
      [] t = "164.08" -> Cents(16408)
      [] t = "52164500" -> Num(FALSE, 52, 16450000)
      [] t = "2650000000000" -> Num(FALSE, 2650000, 0)
      [] t = "150.00" -> Cents(15000)
      [] t = "160.00" -> Cents(16000)
      [] t = "155.00" -> Cents(15500) ]

\* String.prototype.trim and toLowerCase on the texts of the model
Trim(s) == IF s \in {"", " "} THEN "" ELSE s
ToLowerCase(s) ==
  CASE s \in {"None", "NONE", "none"} -> "none"
    [] s \in {"N/A", "n/a"} -> "n/a"
    [] OTHER -> s

\* String(value), the text parseFloat and parseInt read of a value that is
\* not a string: the decimal digits of a number below 10^21, and mantissa
\* and exponent from there on
NumberToString(v) ==
  IF v = NaN THEN Str("NaN")
  ELSE IF IsInfinite(v) THEN Str(IF v.neg THEN "-Infinity" ELSE "Infinity")
  ELSE IF v = Sextillion THEN Str("1e+21")
  ELSE IF IsNum(v) THEN [digits |-> v]
  ELSE IF v = Null THEN Str("null")
  ELSE Str("undefined")
\* parseFloat(value) for a string or a number: a number is read from its text
parseFloat(v) ==
  LET text == IF IsStr(v) THEN v ELSE NumberToString(v)
  IN  IF DOMAIN text = {"digits"} THEN text.digits
      ELSE IF text.str \in DOMAIN NumericText THEN NumericText[text.str]
      ELSE IF text.str = "Infinity" THEN Infinite(FALSE)
      ELSE IF text.str = "-Infinity" THEN Infinite(TRUE)
      ELSE IF text.str \in {"1000000000000000000000", "1e+21"} THEN Sextillion
      ELSE NaN
isNaN(v) == v = NaN

\* the guard safeParseFloat and safeParseInt share (lines 16 and 25)
IsBlankSentinel(v) ==
  \/ v = Null
  \/ v = Undefined
  \/ IsStr(v) /\ (Trim(v.str) = "" \/ ToLowerCase(v.str) \in {"n/a", "none"})

safeParseFloat(v) ==
  IF IsBlankSentinel(v) THEN Undefined
  ELSE LET num == parseFloat(v) IN IF isNaN(num) THEN Undefined ELSE num

\* x ?? d
Coalesce(x, d) == IF x = Undefined THEN d ELSE x

(***************************************************************************)
(* formatLargeNumber: the result is the mantissa shown and the suffix      *)
(***************************************************************************)
NotAvailable == Str("N/A")
Formatted(n, suffix) == [shown |-> n, suffix |-> suffix]
\* lines 34-49 with > in the place of >= at lines 39, 42 and 45
formatLargeNumberAbove(v) ==
  IF v = Undefined \/ v = Null THEN NotAvailable
  ELSE LET numericValue == IF IsStr(v) THEN safeParseFloat(v) ELSE v
           Above(n, millions) == n.m > millions \/ (n.m = millions /\ n.c > 0)
       IN  IF numericValue = Undefined \/ isNaN(numericValue) THEN NotAvailable
           ELSE IF IsInfinite(numericValue) \/ numericValue = Sextillion
           THEN Formatted(numericValue, "T")
           ELSE IF Above(numericValue, 1000000) THEN Formatted(numericValue, "T")
           ELSE IF Above(numericValue, 1000) THEN Formatted(numericValue, "B")
           ELSE IF Above(numericValue, 1) THEN Formatted(numericValue, "M")
           ELSE Formatted(numericValue, "")
\* lines 34-49
formatLargeNumber(v) ==
  IF v = Undefined \/ v = Null THEN NotAvailable
  ELSE LET numericValue == IF IsStr(v) THEN safeParseFloat(v) ELSE v
       IN  IF numericValue = Undefined \/ isNaN(numericValue) THEN NotAvailable
           ELSE IF IsInfinite(numericValue) \/ numericValue = Sextillion
           THEN Formatted(numericValue, "T")
           ELSE IF numericValue.m >= 1000000 THEN Formatted(numericValue, "T")
           ELSE IF numericValue.m >= 1000 THEN Formatted(numericValue, "B")
           ELSE IF numericValue.m >= 1 THEN Formatted(numericValue, "M")
           ELSE Formatted(numericValue, "")

(***************************************************************************)
(* Tickers and messages                                                    *)
(***************************************************************************)
\* tickers a request is made with: the form accepts 1 to 7 characters of
\* [A-Z0-9.-] (TickerInputForm), the action itself any string
Tickers == {"aapl", "MSFT", "ZZZZ"}
ToUpperCase(t) ==
  CASE t = "aapl" -> "AAPL"
    [] t = "msft" -> "MSFT"
    [] OTHER -> t
\* the demo set with one ticker left out
SupportedTickersWithoutMSFT == {"AAPL", "GOOGL"}
SUPPORTED_TICKERS_FOR_FALLBACK == {"AAPL", "GOOGL", "MSFT"}

\* A message is the template it was built from (kind), the ticker it embeds
\* and the kind of the message it embeds as its reason ("" when none).
Message(kind, t) == [kind |-> kind, ticker |-> t, reason |-> ""]
\* "No current quote data found for T. It might be an invalid symbol,
\* delisted, or an API issue."
NoQuoteMessage(t) == Message("NoQuote", t)
\* "No historical price data found for T. Check the symbol or API limits."
NoHistoryMessage(t) == Message("NoHistory", t)
\* "Alpha Vantage API rate limit hit for T. Please wait and try again.
\* (Free tier is limited)."
RateLimitMessage(t) == Message("RateLimit", t)
\* "Alpha Vantage API rate limit hit for T. Please wait and try again or
\* consider a premium plan for higher limits. (Free tier is limited)."
RateLimitMessageOuter(t) == Message("RateLimitOuter", t)
\* "Alpha Vantage API error for T: This might be a premium endpoint or an
\* issue with the symbol. Please check your API plan and symbol."
PremiumMessage(t) == Message("Premium", t)
\* "Ticker T not supported with current AlphaVantage fallback. Try AAPL,
\* GOOGL, or MSFT if main API fails."
UnsupportedMessage(t) == Message("Unsupported", t)
\* the message of the TypeError raised by a call of a method the value
\* does not have: "x.replace is not a function"
TypeErrorMessage == Message("TypeError", "")
\* What the provider rejects with:
\* "... Our standard API call frequency is 5 calls per minute and 100 calls
\* per day. Please visit ... to target a higher API call frequency."
ProviderRateLimit == Message("ProviderRateLimit", "")
\* "Invalid API call ... This is a premium endpoint ..."
ProviderPremium == Message("ProviderPremium", "")
\* any other failure of the provider ("An AlphaVantage error occurred. 500")
ProviderOther == Message("ProviderOther", "")
ProviderReasons == {ProviderRateLimit, ProviderPremium, ProviderOther}
\* What a generative collaborator rejects with: an Error with a message, or
\* an Error whose message is empty
ModelError == Message("ModelError", "")
EmptyError == Message("", "")
CollaboratorReasons == {ModelError, EmptyError}

\* The substrings the code probes for, as each template's text holds them
\* (the embedded ticker is upper case and holds none of them).
Substrings(kind) ==
  CASE kind = "NoQuote" -> {"No current quote data found"}
    [] kind = "NoHistory" -> {"No historical price data found"}
    [] kind = "Premium" -> {"premium endpoint"}
    [] kind = "ProviderRateLimit" ->
         {"Our standard API call frequency is 5 calls per minute and 100 calls per day"}
    [] kind = "ProviderPremium" -> {"Invalid API call", "premium endpoint"}
    [] OTHER -> {}
\* the same of the text in lower case
LowerSubstrings(kind) ==
  CASE kind = "ProviderRateLimit" -> {"api call frequency"}
    [] OTHER -> {}
\* message.includes(sub) and message.toLowerCase().includes(sub)
Includes(msg, sub) == sub \in Substrings(msg.kind)
IncludesLower(msg, sub) == sub \in LowerSubstrings(msg.kind)

(***************************************************************************)
(* Promises: an upstream call is not issued, pending, or settled           *)
(***************************************************************************)
NotIssued == [st |-> "none"]
Pending == [st |-> "pending"]
Fulfilled(v) == [st |-> "fulfilled", value |-> v]
Rejected(r) == [st |-> "rejected", reason |-> r]
IsSettled(c) == c.st \in {"fulfilled", "rejected"}

(***************************************************************************)
(* Payloads of the quotes provider                                         *)
(***************************************************************************)
\* A date text is the day it denotes ("now" is day 0, earlier days are
\* negative) and the form it is written in: "YYYY-MM-DD", the same day as
\* "YYYY-MM-DDT00:00:00Z", or a text that parseISO finds invalid.
DateText(d) == [iso |-> TRUE, day |-> d, form |-> "date"]
DateTimeText(d) == [iso |-> TRUE, day |-> d, form |-> "datetime"]
InvalidDateText == [iso |-> FALSE, day |-> 0, form |-> "none"]

\* quote: no value, a value without 'Global Quote', an empty 'Global Quote',
\* a well-formed one, and one whose change percent is a number
GlobalQuote ==
  [price |-> Str("170.34"), change |-> Str("1.23"), changePercent |-> Str("0.72%"),
   volume |-> Str("52164500"), latestTradingDay |-> DateText(0 - 1),
   previousClose |-> Str("169.11"), open |-> Str("168.50"),
   high |-> Str("171.00"), low |-> Str("168.50")]
QuoteNull == [shape |-> "null"]
QuoteNoGlobalQuote == [shape |-> "noGlobalQuote"]
QuoteEmpty == [shape |-> "emptyGlobalQuote"]
QuoteValid == [shape |-> "quote", q |-> GlobalQuote]
QuoteMalformed ==
  [shape |-> "quote", q |-> [GlobalQuote EXCEPT !.changePercent = Cents(72)]]
QuoteValues == {QuoteNull, QuoteNoGlobalQuote, QuoteEmpty, QuoteValid, QuoteMalformed}

\* overview: no value, a value without Symbol, a complete one, and one whose
\* ratios are "None"; o is what the value's fields read as
Overview(t) ==
  [Symbol |-> Str(t), Name |-> Str("Apple Inc."),
   MarketCapitalization |-> Str("2650000000000"), PERatio |-> Str("28.5"),
   EPS |-> Str("6.13"), High52 |-> Str("199.62"), Low52 |-> Str("164.08")]
NoOverview ==
  [Symbol |-> Undefined, Name |-> Undefined, MarketCapitalization |-> Undefined,
   PERatio |-> Undefined, EPS |-> Undefined, High52 |-> Undefined,
   Low52 |-> Undefined]
OverviewNull == [shape |-> "null", o |-> NoOverview]
OverviewNoSymbol ==
  [shape |-> "overview", o |-> [Overview("") EXCEPT !.Symbol = Undefined]]
OverviewValid(t) == [shape |-> "overview", o |-> Overview(t)]
OverviewNone(t) ==
  [shape |-> "overview",
   o |-> [Overview(t) EXCEPT !.PERatio = Str("None"), !.EPS = Str("None")]]
OverviewValues(t) ==
  {OverviewNull, OverviewNoSymbol, OverviewValid(t), OverviewNone(t)}

\* daily series: no value, a value without 'Time Series (Daily)', an empty
\* series, and series of entries in the provider's order (latest first)
Entry(date, close) ==
  [date |-> date, close |-> close, open |-> Str("168.50"), high |-> Str("171.00"),
   low |-> Str("168.50"), volume6 |-> Str("52164500"), volume5 |-> Undefined]
SeriesRecent ==
  << Entry(DateText(0 - 1), Str("170.34")), Entry(DateText(0 - 2), Str("169.11")),
     Entry(DateText(0 - 380), Str("155.00")), Entry(DateText(0 - 400), Str("150.00")) >>
\* a series with two keys for one day, a close that is not a number, a
\* close that is missing and a key that is not a date
SeriesMalformed ==
  << Entry(DateText(0 - 1), Str("170.34")), Entry(DateTimeText(0 - 1), Str("169.11")),
     Entry(DateText(0 - 3), Str("abc")), Entry(DateText(0 - 4), Undefined),
     Entry(InvalidDateText, Str("168.00")) >>
\* a series whose points are all more than a year old
SeriesStale ==
  << Entry(DateText(0 - 380), Str("155.00")), Entry(DateText(0 - 400), Str("150.00")) >>
SeriesBadDates ==
  << Entry(InvalidDateText, Str("170.34")), Entry(InvalidDateText, Str("abc")) >>
DailyNull == [shape |-> "null"]
DailyNoSeries == [shape |-> "noSeries"]
DailyEmpty == [shape |-> "series", ts |-> << >>]
DailyValid(ts) == [shape |-> "series", ts |-> ts]
DailyValues ==
  {DailyNull, DailyNoSeries, DailyEmpty, DailyValid(SeriesRecent),
   DailyValid(SeriesBadDates), DailyValid(SeriesMalformed), DailyValid(SeriesStale)}

(***************************************************************************)
(* fetchAlphaVantageData                                                   *)
(***************************************************************************)
Zero == Cents(0)
\* JavaScript truthiness of the values of the model, and a || b
Truthy(v) == v # Undefined /\ v # Str("") /\ v # NaN /\ ~IsZero(v)
Or(a, b) == IF Truthy(a) THEN a ELSE b

\* what a function body ends with
Returned(v) == [thrown |-> FALSE, value |-> v]
Thrown(e) == [thrown |-> TRUE, error |-> e]

\* line 68: the quote outcome carries no usable 'Global Quote'
QuoteMissing(quoteResponse) ==
  \/ quoteResponse.st = "rejected"
  \/ quoteResponse.value.shape \in {"null", "noGlobalQuote", "emptyGlobalQuote"}

\* the test of line 76 without its test of Symbol
OverviewUsableWithoutSymbol(overviewResponse) ==
  /\ overviewResponse.st = "fulfilled"
  /\ overviewResponse.value.shape = "overview"

\* line 76: the overview outcome is used
OverviewUsable(overviewResponse) ==
  /\ overviewResponse.st = "fulfilled"
  /\ overviewResponse.value.shape = "overview"
  /\ Truthy(overviewResponse.value.o.Symbol)

\* the test of line 83 without its test of an empty series
DailyMissingUnlessEmpty(dailyResponse) ==
  \/ dailyResponse.st = "rejected"
  \/ dailyResponse.value.shape \in {"null", "noSeries"}

\* line 83: the daily outcome carries no usable 'Time Series (Daily)'
DailyMissing(dailyResponse) ==
  \/ dailyResponse.st = "rejected"
  \/ dailyResponse.value.shape \in {"null", "noSeries"}
  \/ Len(dailyResponse.value.ts) = 0

\* value?.replace('%', ''), for the strings of the model
StripPercent(v) ==
  IF v = Undefined THEN Undefined
  ELSE IF v.str = "0.72%" THEN Str("0.72") ELSE v

\* "T (Name N/A)"
NamePlaceholder(T) == [placeholder |-> "(Name N/A)", ticker |-> T]

\* lines 97 and 98
RatioOf(raw) ==
  IF raw = Str("None") \/ ~Truthy(raw) \/ isNaN(parseFloat(raw))
  THEN NotAvailable ELSE safeParseFloat(raw)

\* lines 89-106
StockDataOf(ticker, q, o) ==
  [ticker |-> Or(o.Symbol, Str(ToUpperCase(ticker))),
   name |-> Or(o.Name, NamePlaceholder(ToUpperCase(ticker))),
   price |-> Coalesce(safeParseFloat(q.price), Zero),
   change |-> Coalesce(safeParseFloat(q.change), Zero),
   changePercent |-> Coalesce(safeParseFloat(StripPercent(q.changePercent)), Zero),
   marketCap |-> formatLargeNumber(o.MarketCapitalization),
   volume |-> formatLargeNumber(q.volume),
   peRatio |-> RatioOf(o.PERatio),
   eps |-> RatioOf(o.EPS),
   week52High |-> safeParseFloat(o.High52),
   week52Low |-> safeParseFloat(o.Low52),
   lastUpdated |-> IF Truthy(q.latestTradingDay) /\ q.latestTradingDay.iso
                   THEN q.latestTradingDay.day ELSE 0,
   previousClose |-> safeParseFloat(q.previousClose),
   openPrice |-> safeParseFloat(q.open),
   dayHigh |-> safeParseFloat(q.high),
   dayLow |-> safeParseFloat(q.low)]

\* parseInt(value, 10) and safeParseInt
\* the digits before the first character that is not a digit: "Infinity"
\* has none and "1e+21" has the digit 1
parseInt(v) ==
  LET text == IF IsStr(v) THEN v ELSE NumberToString(v)
      num == parseFloat(text)
  IN  IF isNaN(num) \/ IsInfinite(num) THEN NaN
      ELSE IF text = Str("1e+21") THEN Cents(100)
      ELSE IF num = Sextillion THEN Sextillion
      ELSE Num(num.neg, num.m, (num.c \div 100) * 100)
safeParseInt(v) ==
  IF IsBlankSentinel(v) THEN Undefined
  ELSE LET num == parseInt(v) IN IF isNaN(num) THEN Undefined ELSE num

\* lines 109-119: one entry of the series as a point, or null
PointOf(e) ==
  IF ~e.date.iso THEN Null
  ELSE [date |-> e.date,
        price |-> Coalesce(safeParseFloat(e.close), Zero),
        open |-> Coalesce(safeParseFloat(e.open), Zero),
        high |-> Coalesce(safeParseFloat(e.high), Zero),
        low |-> Coalesce(safeParseFloat(e.low), Zero),
        volume |-> Coalesce(safeParseInt(Or(e.volume6, e.volume5)), Zero)]

\* Array.prototype.filter, keeping the order
SelectFrom(s, Keep(_)) == SelectSeq(s, Keep)

\* line 122 and line 267: a stable sort, ascending by date
InsertByDate(sorted, p) ==
  LET k == Cardinality({i \in 1..Len(sorted) : sorted[i].date.day <= p.date.day})
  IN  SubSeq(sorted, 1, k) \o << p >> \o SubSeq(sorted, k + 1, Len(sorted))
RECURSIVE SortByDate(_)
SortByDate(s) ==
  IF Len(s) = 0 THEN << >>
  ELSE InsertByDate(SortByDate(SubSeq(s, 1, Len(s) - 1)), s[Len(s)])

\* line 123: slice(-365)
HistoryCap == 365
SliceLast(s, n) == IF Len(s) <= n THEN s ELSE SubSeq(s, Len(s) - n + 1, Len(s))

\* lines 108-123
HistoricalOf(timeSeries) ==
  LET NotNull(p) == p # Null
      historical == SelectFrom([i \in 1..Len(timeSeries) |-> PointOf(timeSeries[i])],
                               NotNull)
  IN  SliceLast(SortByDate(historical), HistoryCap)

\* the body of the try with the daily series examined before the quote
AlphaVantageTryDailyFirst(ticker, quoteResponse, overviewResponse, dailyResponse) ==
  IF DailyMissing(dailyResponse) THEN Thrown(NoHistoryMessage(ticker))
  ELSE IF QuoteMissing(quoteResponse) THEN Thrown(NoQuoteMessage(ticker))
  ELSE
    LET q == quoteResponse.value.q
        o == IF OverviewUsable(overviewResponse)
             THEN overviewResponse.value.o ELSE NoOverview
    IN  IF IsNum(q.changePercent) THEN Thrown(TypeErrorMessage)
        ELSE Returned([data |-> StockDataOf(ticker, q, o),
                       historical |-> HistoricalOf(dailyResponse.value.ts)])

\* lines 59-135: the body of the try, once the three calls have settled
AlphaVantageTry(ticker, quoteResponse, overviewResponse, dailyResponse) ==
  IF QuoteMissing(quoteResponse) THEN Thrown(NoQuoteMessage(ticker))
  ELSE
    LET q == quoteResponse.value.q
        o == IF OverviewUsable(overviewResponse)
             THEN overviewResponse.value.o ELSE NoOverview
    IN  IF DailyMissing(dailyResponse) THEN Thrown(NoHistoryMessage(ticker))
        ELSE IF IsNum(q.changePercent) THEN Thrown(TypeErrorMessage)
        ELSE Returned([data |-> StockDataOf(ticker, q, o),
                       historical |-> HistoricalOf(dailyResponse.value.ts)])

\* lines 137-148: the message the catch rethrows
AlphaVantageCatch(error, ticker) ==
  IF Includes(error, "Invalid API call") /\ Includes(error, "premium endpoint")
  THEN PremiumMessage(ticker)
  ELSE IF Includes(error, "higher FREQUENCY")
          \/ IncludesLower(error, "api call frequency")
  THEN RateLimitMessage(ticker)
  ELSE error

\* lines 53-150 with the provider configured
fetchAlphaVantageData(ticker, quoteResponse, overviewResponse, dailyResponse) ==
  LET body == AlphaVantageTry(ticker, quoteResponse, overviewResponse, dailyResponse)
  IN  IF body.thrown THEN Thrown(AlphaVantageCatch(body.error, ticker)) ELSE body

(***************************************************************************)
(* The placeholder quote and history of lines 223-247                      *)
(***************************************************************************)
\* Math.random(): a request finds the generator in some state rand, and the
\* n-th draw from there is Draw(rand, n) / RandSteps, a value in [0, 1)
Draw(rand, n) == (rand + n) % RandSteps
\* floor(r * scale) for the draw r
Scaled(rand, n, scale) == (Draw(rand, n) * scale) \div RandSteps
\* line 235: the number of placeholder points
MockPoints == 30
\* round(sin(i / 5) * 1000), i = 0..29: sin(i / 5) * 10 in hundredths
SinTable ==
  << 0, 199, 389, 565, 717, 841, 932, 985, 1000, 974, 909, 808, 675, 516, 335,
     141, -58, -256, -443, -612, -757, -872, -952, -994, -996, -959, -883, -773,
     -631, -465 >>

\* lines 235-246: the point of index i (0-based), in hundredths
MockPoint(rand, i) ==
  LET price == 10000 + SinTable[i + 1] + Scaled(rand, 3 + 5 * i, 500)
  IN  [date |-> DateText(0 - (MockPoints - 1 - i)),
       price |-> Cents(price),
       open |-> Cents(price - Scaled(rand, 4 + 5 * i, 100)),
       high |-> Cents(price + Scaled(rand, 5 + 5 * i, 200)),
       low |-> Cents(price - Scaled(rand, 6 + 5 * i, 200)),
       volume |-> Num(FALSE, 1, 100 * Scaled(rand, 7 + 5 * i, 500000))]

\* lines 223-247
MockStockDetails(upperTicker, rand) ==
  [data |->
     [ticker |-> Str(upperTicker),
      name |-> [placeholder |-> "(Mock Data - API Error)", ticker |-> upperTicker],
      price |-> Cents(10000 + Scaled(rand, 0, 5000)),
      change |-> Cents(Scaled(rand, 1, 1000) - 500),
      changePercent |-> Cents(Scaled(rand, 2, 200) - 100),
      marketCap |-> Str("1T"),
      volume |-> Str("10M"),
      peRatio |-> NotAvailable,
      eps |-> NotAvailable,
      week52High |-> Undefined,
      week52Low |-> Undefined,
      lastUpdated |-> 0,
      previousClose |-> Undefined,
      openPrice |-> Undefined,
      dayHigh |-> Undefined,
      dayLow |-> Undefined],
   historical |-> [i \in 1..MockPoints |-> MockPoint(rand, i - 1)]]

(***************************************************************************)
(* fetchRealNews                                                           *)
(***************************************************************************)
\* lines 193-204
MockArticle(id, title, day, sentiment) ==
  [id |-> [mock |-> id], title |-> title, source |-> "MockSource",
   articleUrl |-> "#", articleContent |-> Str(title), publishedAt |-> day,
   imageUrl |-> "https://placehold.co/600x400.png", sentiment |-> sentiment]
MOCK_NEWS_FALLBACK(upperTicker) ==
  CASE upperTicker = "AAPL" ->
         << MockArticle("aapl-mock-1", "Mock Apple News: Vision Pro Updates", 0 - 2, "Neutral"),
            MockArticle("aapl-mock-2", "Mock: iPhone 17 Speculations", 0 - 5, "Positive") >>
    [] upperTicker = "GOOGL" ->
         << MockArticle("googl-mock-1", "Mock Google AI Advancements", 0 - 3, "Positive") >>
    [] upperTicker = "MSFT" ->
         << MockArticle("msft-mock-1", "Mock Microsoft Cloud Growth", 0 - 4, "Positive") >>
    [] OTHER -> << >>

\* what the news provider sends for one article
RawArticle(title, url, content, description, publishedAt) ==
  [title |-> title, url |-> url, content |-> content, description |-> description,
   publishedAt |-> publishedAt, sourceId |-> Undefined,
   sourceName |-> Str("Newswire"), urlToImage |-> Undefined]
RawRecent ==
  RawArticle(Str("Shares rise"), Str("https://n/1"), Str("Shares rose today."),
             Str("Shares rose."), DateText(0 - 3))
RawOld ==
  RawArticle(Str("Old report"), Str("https://n/2"), Str("An old report."),
             Undefined, DateText(0 - 45))
RawRemoved ==
  RawArticle(Str("[Removed]"), Str("https://n/3"), Str("[Removed]"),
             Str("[Removed]"), DateText(0 - 1))
\* the articles the provider holds, by relevance; a call returns a run of
\* them, at most MaxRawArticles long
NewsFeed == << RawRecent, RawOld, RawRemoved, RawRecent, RawRecent, RawOld >>
RawLists ==
  {SubSeq(NewsFeed, w[1], w[1] + w[2] - 1) :
     w \in {v \in (1..Len(NewsFeed)) \X (0..MaxRawArticles) :
               v[1] + v[2] - 1 <= Len(NewsFeed)}}
NewsOk(articles) == [status |-> "ok", articles |-> articles]
NewsError == [status |-> "error", articles |-> << >>]
NewsResponses == {NewsError} \cup {NewsOk(l) : l \in RawLists}

\* line 171
KeepArticle(article) ==
  /\ Truthy(article.title)
  /\ article.title # Str("[Removed]")
  /\ Truthy(article.url)
  /\ Truthy(article.content)

\* lines 172 and 310: at most 6 articles
ArticleCap == 6
SliceFirst(s, n) == IF Len(s) <= n THEN s ELSE SubSeq(s, 1, n)

\* lines 173-182: index is 0-based
ArticleOf(ticker, article, index) ==
  [id |-> [ticker |-> ticker, sourceId |-> Or(article.sourceId, Str("api")),
           index |-> index,
           time |-> IF Truthy(article.publishedAt) THEN article.publishedAt
                    ELSE DateText(0)],
   title |-> article.title.str,
   source |-> Or(article.sourceName, Str("Unknown Source")).str,
   articleUrl |-> article.url.str,
   articleContent |-> Or(article.content, Or(article.description, Str("No Content Available"))),
   publishedAt |-> IF Truthy(article.publishedAt) /\ article.publishedAt.iso
                   THEN article.publishedAt.day ELSE 0,
   imageUrl |-> Or(article.urlToImage, Str("https://placehold.co/300x200.png")).str,
   sentiment |-> "Unknown"]

\* lines 169-186, for a fulfilled call
ArticlesOfResponse(ticker, response) ==
  IF response.status = "ok"
  THEN LET kept == SliceFirst(SelectFrom(response.articles, KeepArticle), ArticleCap)
       IN  [i \in 1..Len(kept) |-> ArticleOf(ticker, kept[i], i - 1)]
  ELSE MOCK_NEWS_FALLBACK(ToUpperCase(ticker))

\* fetchRealNews without the catch of line 187
fetchRealNewsUncaught(ticker, call) ==
  IF call.st = "none" THEN Returned(MOCK_NEWS_FALLBACK(ToUpperCase(ticker)))
  ELSE IF call.st = "rejected" THEN Thrown(call.reason)
  ELSE Returned(ArticlesOfResponse(ticker, call.value))

\* lines 153-191: what fetchRealNews ends with; call is the call of line
\* 161 once settled, and is not issued when the provider is not configured
fetchRealNews(ticker, call) ==
  IF call.st = "none" THEN Returned(MOCK_NEWS_FALLBACK(ToUpperCase(ticker)))
  ELSE IF call.st = "rejected" THEN Returned(MOCK_NEWS_FALLBACK(ToUpperCase(ticker)))
  ELSE Returned(ArticlesOfResponse(ticker, call.value))

(***************************************************************************)
(* fetchStockDataAndNews: the computations between its awaits              *)
(***************************************************************************)
\* line 256: differenceInDays(now, date) <= 30
RecentDays == 30
IsRecent(article) == 0 - article.publishedAt <= RecentDays
\* lines 252-263
RecentNewsOf(articles) ==
  LET recent == SelectFrom(articles, IsRecent)
  IN  [i \in 1..Len(recent) |->
         [title |-> recent[i].title, articleContent |-> recent[i].articleContent,
          publishedAt |-> recent[i].publishedAt, source |-> recent[i].source]]

\* lines 269 and 276: one year, in days
YearDays == 365
\* Math.max and Math.min of the prices of a non-empty sequence of points
MaxPrice(points) ==
  LET i == CHOOSE i \in 1..Len(points) :
             \A j \in 1..Len(points) : NumLeq(points[j].price, points[i].price)
  IN  points[i].price
MinPrice(points) ==
  LET i == CHOOSE i \in 1..Len(points) :
             \A j \in 1..Len(points) : NumLeq(points[i].price, points[j].price)
  IN  points[i].price

\* lines 265-284 with the high and the low taken over the whole series
YearRangeOfWholeSeries(historical) ==
  IF Len(historical) = 0
  THEN [yearStartPrice |-> Undefined, yearEndPrice |-> Undefined,
        yearHigh |-> Undefined, yearLow |-> Undefined]
  ELSE
    LET sortedHistorical == SortByDate(historical)
        OnOrBefore(p) == p.date.day <= 0 - YearDays
        found == SelectFrom(sortedHistorical, OnOrBefore)
        closestToYearAgo == IF Len(found) > 0 THEN found[1] ELSE sortedHistorical[1]
    IN  [yearStartPrice |-> closestToYearAgo.price,
         yearEndPrice |-> sortedHistorical[Len(sortedHistorical)].price,
         yearHigh |-> MaxPrice(sortedHistorical),
         yearLow |-> MinPrice(sortedHistorical)]

\* lines 265-284 with the year-end price read at index 0 of the sorted series
YearRangeOfEndingAtEarliest(historical) ==
  IF Len(historical) = 0
  THEN [yearStartPrice |-> Undefined, yearEndPrice |-> Undefined,
        yearHigh |-> Undefined, yearLow |-> Undefined]
  ELSE
    LET sortedHistorical == SortByDate(historical)
        Within(p) == 0 - p.date.day <= YearDays
        relevantHistoricalData == SelectFrom(sortedHistorical, Within)
        used == IF Len(relevantHistoricalData) > 0
                THEN relevantHistoricalData ELSE sortedHistorical
    IN  [yearStartPrice |-> sortedHistorical[1].price,
         yearEndPrice |-> sortedHistorical[1].price,
         yearHigh |-> MaxPrice(used),
         yearLow |-> MinPrice(used)]

\* lines 265-284
YearRangeOf(historical) ==
  IF Len(historical) = 0
  THEN [yearStartPrice |-> Undefined, yearEndPrice |-> Undefined,
        yearHigh |-> Undefined, yearLow |-> Undefined]
  ELSE
    LET sortedHistorical == SortByDate(historical)
        OnOrBefore(p) == p.date.day <= 0 - YearDays
        found == SelectFrom(sortedHistorical, OnOrBefore)
        closestToYearAgo == IF Len(found) > 0 THEN found[1] ELSE sortedHistorical[1]
        Within(p) == 0 - p.date.day <= YearDays
        relevantHistoricalData == SelectFrom(sortedHistorical, Within)
        used == IF Len(relevantHistoricalData) > 0
                THEN relevantHistoricalData ELSE sortedHistorical
    IN  [yearStartPrice |-> closestToYearAgo.price,
         yearEndPrice |-> sortedHistorical[Len(sortedHistorical)].price,
         yearHigh |-> MaxPrice(used),
         yearLow |-> MinPrice(used)]

\* line 287 with the condition on the news alone
SummaryWantedForNewsOnly(recentNews, range) ==
  Len(recentNews) > 0

\* line 287: the narrative collaborator is to be called
SummaryWanted(recentNews, range) ==
  \/ Len(recentNews) > 0
  \/ /\ range.yearStartPrice # Undefined
     /\ range.yearEndPrice # Undefined
     /\ range.yearHigh # Undefined
     /\ range.yearLow # Undefined

\* the texts financialSummaryText takes
\* line 298: the collaborator's summary
GeneratedSummary == [kind |-> "Generated", ticker |-> "", reason |-> ""]
\* line 301: "AI financial summary could not be generated: <reason>"
SummaryFailureText(genSummaryError) ==
  [kind |-> "AI financial summary could not be generated", ticker |-> "",
   reason |-> IF genSummaryError.kind # "" THEN genSummaryError.kind
              ELSE "Underlying AI model error."]
\* line 304: "Insufficient data (news or historical performance) for T ..."
InsufficientDataText(upperTicker) ==
  [kind |-> "Insufficient data", ticker |-> upperTicker, reason |-> ""]
\* lines 288-302 with a catch that throws the error on
SummaryAttemptRethrows(call) ==
  IF call.st = "fulfilled" THEN Returned(call.value)
  ELSE Thrown(call.reason)

\* lines 288-302: what the try and its catch end with, once the call of line
\* 289 has settled
SummaryAttempt(call) ==
  IF call.st = "fulfilled" THEN Returned(call.value)
  ELSE Returned(SummaryFailureText(call.reason))

\* the collaborators' answers for an article
SummaryFor(article) == [summaryOf |-> article.title]
FallbackSummary == [fixed |-> "AI summary currently unavailable."]
Sentiments == {"Positive", "Neutral", "Negative", "Unknown"}

\* the two calls joined by Promise.all: one failure loses both answers
EnrichedArticleAllOrNothing(article, summaryResult, sentimentResult) ==
  LET both == summaryResult.st = "fulfilled" /\ sentimentResult.st = "fulfilled"
  IN  [id |-> article.id, title |-> article.title, source |-> article.source,
       articleUrl |-> article.articleUrl, articleContent |-> article.articleContent,
       publishedAt |-> article.publishedAt, imageUrl |-> article.imageUrl,
       summary |-> IF both THEN summaryResult.value ELSE FallbackSummary,
       sentiment |-> IF both THEN sentimentResult.value ELSE "Unknown"]

\* lines 311-340: one article with the outcomes of its two calls
EnrichedArticle(article, summaryResult, sentimentResult) ==
  [id |-> article.id, title |-> article.title, source |-> article.source,
   articleUrl |-> article.articleUrl, articleContent |-> article.articleContent,
   publishedAt |-> article.publishedAt, imageUrl |-> article.imageUrl,
   summary |-> IF summaryResult.st = "fulfilled"
               THEN summaryResult.value ELSE FallbackSummary,
   sentiment |-> IF sentimentResult.st = "fulfilled"
                 THEN sentimentResult.value ELSE "Unknown"]

\* lines 307-348 with the articles joined by Promise.all: after the first
\* article with a rejected call no answer is recorded
ProcessedArticlesUntilRejection(articles, summaryResults, sentimentResults) ==
  LET shown == SliceFirst(articles, ArticleCap)
      Lost(i) == \E j \in 1..(i - 1) :
                   \/ summaryResults[j].st = "rejected"
                   \/ sentimentResults[j].st = "rejected"
  IN  [i \in 1..Len(shown) |->
         IF Lost(i)
         THEN EnrichedArticle(shown[i], [st |-> "rejected"], [st |-> "rejected"])
         ELSE EnrichedArticle(shown[i], summaryResults[i], sentimentResults[i])]

\* lines 307-348
ProcessedArticles(articles, summaryResults, sentimentResults) ==
  LET shown == SliceFirst(articles, ArticleCap)
  IN  [i \in 1..Len(shown) |->
         EnrichedArticle(shown[i], summaryResults[i], sentimentResults[i])]

\* lines 350-357 and 379: the two results
DataResult(details, articles, text) ==
  [data |-> [stockData |-> details.data, historicalData |-> details.historical,
             newsArticles |-> articles, financialSummary |-> text],
   error |-> Undefined]
ErrorResult(message) == [data |-> Undefined, error |-> message]

\* the catch with errorMessage assigned in the rewriting branches only
CatchMessageUnset(error, upperTicker) ==
  IF \/ Includes(error, "Our standard API call frequency is 5 calls per minute and 100 calls per day")
     \/ Includes(error, "higher FREQUENCY")
  THEN RateLimitMessageOuter(upperTicker)
  ELSE IF Includes(error, "Invalid API call") /\ Includes(error, "premium endpoint")
  THEN PremiumMessage(upperTicker)
  ELSE Undefined

\* lines 359-377: the message of the error caught by the orchestrator
CatchMessage(error, upperTicker) ==
  IF \/ Includes(error, "Our standard API call frequency is 5 calls per minute and 100 calls per day")
     \/ Includes(error, "higher FREQUENCY")
  THEN RateLimitMessageOuter(upperTicker)
  ELSE IF Includes(error, "Invalid API call") /\ Includes(error, "premium endpoint")
  THEN PremiumMessage(upperTicker)
  ELSE error

(***************************************************************************)
(* State                                                                   *)
(***************************************************************************)
VARIABLES
  alphaVantage,          \* line 12: the quotes provider is configured
  newsapi,               \* line 11: the news provider is configured
  pc,                    \* where the request is
  ticker,                \* the argument of the request
  quoteCall,             \* line 62
  overviewCall,          \* line 63
  dailyCall,             \* line 64
  newsCall,              \* line 161
  summaryCall,           \* line 289
  summarizeCalls,        \* line 317, one per article
  sentimentCalls,        \* line 323, one per article
  stockDetails,          \* line 211
  fetchedNewsArticles,   \* line 250
  financialSummaryText,  \* line 286
  result,                \* what the request returned
  issued,                \* how many times the request has made each call
  page,                  \* the state of the page component that calls
  mockRevision,          \* module state of the mock-data revision (actions.ts)
  called                 \* a call of one of the module's functions on its own

config == << alphaVantage, newsapi, mockRevision, called >>
avCalls == << quoteCall, overviewCall, dailyCall >>
locals ==
  << pc, newsCall, summaryCall, summarizeCalls, sentimentCalls, stockDetails,
     fetchedNewsArticles, financialSummaryText, result, issued >>
vars == << alphaVantage, newsapi, ticker, quoteCall, overviewCall, dailyCall,
           pc, newsCall, summaryCall, summarizeCalls, sentimentCalls, stockDetails,
           fetchedNewsArticles, financialSummaryText, result, issued, page,
           mockRevision, called >>

NoValue == [none |-> TRUE]
upperTicker == ToUpperCase(ticker)

\* the part of the state the orchestrator's continuations write
Locals ==
  [pc |-> pc, newsCall |-> newsCall, summaryCall |-> summaryCall,
   summarizeCalls |-> summarizeCalls, sentimentCalls |-> sentimentCalls,
   stockDetails |-> stockDetails, fetchedNewsArticles |-> fetchedNewsArticles,
   financialSummaryText |-> financialSummaryText, result |-> result,
   issued |-> issued]
Becomes(n) ==
  /\ pc' = n.pc
  /\ newsCall' = n.newsCall
  /\ summaryCall' = n.summaryCall
  /\ summarizeCalls' = n.summarizeCalls
  /\ sentimentCalls' = n.sentimentCalls
  /\ stockDetails' = n.stockDetails
  /\ fetchedNewsArticles' = n.fetchedNewsArticles
  /\ financialSummaryText' = n.financialSummaryText
  /\ result' = n.result
  /\ issued' = n.issued

\* no call made yet: one count for each call site, and for the calls of
\* lines 317 and 323 one count for each article
NoneIssued ==
  [quote |-> 0, overview |-> 0, daily |-> 0, news |-> 0, summary |-> 0,
   summarize |-> << >>, sentiment |-> << >>]
\* the counts of n articles after one more call for each of them
OnceMore(counts, n) ==
  [i \in 1..n |-> IF i \in DOMAIN counts THEN counts[i] + 1 ELSE 1]

InitialLocals ==
  [pc |-> "idle", newsCall |-> NotIssued, summaryCall |-> NotIssued,
   summarizeCalls |-> << >>, sentimentCalls |-> << >>, stockDetails |-> NoValue,
   fetchedNewsArticles |-> << >>, financialSummaryText |-> NoValue,
   result |-> NoValue, issued |-> NoneIssued]

(***************************************************************************)
(* The page component (HomePage) that calls fetchStockDataAndNews          *)
(***************************************************************************)
\* page.tsx lines 86-89: the state of the component; awaiting says that
\* handleTickerSubmit is suspended at its await (line 108)
InitialPage ==
  [stockData |-> Null, isLoading |-> FALSE, error |-> Null, initialLoad |-> TRUE,
   awaiting |-> FALSE]
\* handleTickerSubmit without setError(null) and setStockData(null)
SubmittingOverPrevious(p) ==
  [p EXCEPT !.isLoading = TRUE, !.initialLoad = FALSE, !.awaiting = TRUE]
\* page.tsx lines 101-104: what handleTickerSubmit sets before its await
Submitting(p) ==
  [p EXCEPT !.isLoading = TRUE, !.error = Null, !.stockData = Null,
            !.initialLoad = FALSE, !.awaiting = TRUE]
\* "Received an empty response from the server."
EmptyResponseMessage == Message("EmptyResponse", "")
\* page.tsx lines 110-140: what handleTickerSubmit sets with the result
Applying(p, r) ==
  LET q == [p EXCEPT !.isLoading = FALSE, !.awaiting = FALSE]
  IN  IF r.error # Undefined /\ r.error.kind # ""
      THEN [q EXCEPT !.error = r.error, !.stockData = Null]
      ELSE IF r.data # Undefined
      THEN [q EXCEPT !.stockData = r.data]
      ELSE [q EXCEPT !.error = EmptyResponseMessage, !.stockData = Null]
\* a submit button that is not disabled while loading
CanSubmitWhileLoading(p) == TRUE
\* TickerInputForm line 69 and page.tsx line 242: the submit button is
\* disabled while loading, and the example buttons are rendered only
\* before the first submission
CanSubmit(p) == ~p.isLoading

(***************************************************************************)
(* The mock-data revision of the module (src/lib/actions.ts, lines 1-330)  *)
(***************************************************************************)
\* actions.ts line 30: the length of each series of MOCK_STOCKS
MockHistoryLength == 365
\* actions.ts lines 19, 42 and 65: data.price of the three entries, in
\* hundredths
MockPrice(t) ==
  CASE t = "AAPL" -> 17034
    [] t = "GOOGL" -> 13567
    [] t = "MSFT" -> 42072
\* actions.ts lines 14-84: MOCK_STOCKS as the module is loaded, on day 0.
\* The prices of a series are drawn once, at load; the model takes 150.00.
MOCK_STOCKS ==
  [t \in {"AAPL", "GOOGL", "MSFT"} |->
     [price |-> Cents(MockPrice(t)),
      historical |->
        [i \in 1..MockHistoryLength |->
           [date |-> DateText(0 - (MockHistoryLength - i)), price |-> Cents(15000)]]]]
\* An array holds references: an element is a point object of MOCK_STOCKS,
\* named by its ticker and index, or an object of its own.
Shared(t, i) == [shared |-> TRUE, ticker |-> t, index |-> i]
Own(point) == [shared |-> FALSE, point |-> point]
\* the objects an array of references holds, as they are now
Contents(stocks, array) ==
  [i \in 1..Len(array) |->
     IF array[i].shared THEN stocks[array[i].ticker].historical[array[i].index]
     ELSE array[i].point]
\* actions.ts lines 90-91: the new price, in hundredths (rounded down)
MockNewPrice(t, rand) ==
  MockPrice(t) + ((2 * Draw(rand, 0) - RandSteps) * MockPrice(t) * 5)
                   \div (2 * RandSteps * 1000)
\* actions.ts lines 86-125, for a ticker of MOCK_STOCKS: the table as the
\* call leaves it, and the array it returns as historical
mockFetchStockData(stocks, t, today, rand) ==
  LET last == stocks[t].historical[MockHistoryLength]
      updatedHistorical == [i \in 1..MockHistoryLength |-> Shared(t, i)]
      newPrice == Cents(MockNewPrice(t, rand))
  IN  IF last.date.day = today
      THEN [stocks |-> [stocks EXCEPT
                          ![t].historical[MockHistoryLength].price = newPrice],
            historical |-> updatedHistorical]
      ELSE IF last.date.day < today
      THEN [stocks |-> stocks,
            historical |-> Append(updatedHistorical,
                                  Own([date |-> DateText(today), price |-> newPrice]))]
      ELSE [stocks |-> stocks, historical |-> updatedHistorical]
\* the module as loaded: the table, the day, and no response returned yet
InitialMockRevision == [stocks |-> MOCK_STOCKS, today |-> 0, returned |-> Null]
\* days the module stays loaded after the day of its load
MaxDays == 1

\* the state of a module of either revision before its first request
Loaded ==
  /\ alphaVantage \in BOOLEAN
  /\ newsapi \in BOOLEAN
  /\ ticker = ""
  /\ quoteCall = NotIssued
  /\ overviewCall = NotIssued
  /\ dailyCall = NotIssued
  /\ pc = "idle"
  /\ newsCall = NotIssued
  /\ summaryCall = NotIssued
  /\ summarizeCalls = << >>
  /\ sentimentCalls = << >>
  /\ stockDetails = NoValue
  /\ fetchedNewsArticles = << >>
  /\ financialSummaryText = NoValue
  /\ result = NoValue
  /\ issued = NoneIssued
  /\ page = InitialPage
\* the provider revision: it has no table of stocks
Init == Loaded /\ mockRevision = NoValue /\ called = NoValue
\* the mock-data revision
MockInit == Loaded /\ mockRevision = InitialMockRevision /\ called = NoValue

(***************************************************************************)
(* The orchestrator between two awaits.  Each operator takes the locals    *)
(* and gives the locals at the next await or at the return.                *)
(***************************************************************************)
\* lines 357 and 379
ReturnData(s, articles) ==
  [s EXCEPT !.pc = "done",
            !.result = DataResult(s.stockDetails, articles, s.financialSummaryText)]
\* line 379 in a function that has started the news call before line 213
ReturnErrorWithNewsStarted(s, message) ==
  [s EXCEPT !.pc = "failed", !.result = ErrorResult(message),
            !.newsCall = Pending, !.issued.news = @ + 1]
ReturnError(s, message) ==
  [s EXCEPT !.pc = "failed", !.result = ErrorResult(message)]

\* lines 307-357, from the text of the summary on
AfterSummary(s, text) ==
  LET n == Len(SliceFirst(s.fetchedNewsArticles, ArticleCap))
      t == [s EXCEPT !.financialSummaryText = text]
  IN  IF n = 0 THEN ReturnData(t, << >>)
      ELSE [t EXCEPT !.pc = "enriching-articles",
                     !.summarizeCalls = [i \in 1..n |-> Pending],
                     !.sentimentCalls = [i \in 1..n |-> Pending],
                     !.issued.summarize = OnceMore(@, n),
                     !.issued.sentiment = OnceMore(@, n)]

\* lines 252-305 with the per-article calls issued beside the narrative call
AfterNewsConcurrently(s, T, articles) ==
  LET t == [s EXCEPT !.fetchedNewsArticles = articles]
      n == Len(SliceFirst(articles, ArticleCap))
  IN  IF SummaryWanted(RecentNewsOf(articles), YearRangeOf(s.stockDetails.historical))
      THEN [t EXCEPT !.pc = "generating-summary", !.summaryCall = Pending,
                     !.issued.summary = @ + 1,
                     !.summarizeCalls = [i \in 1..n |-> Pending],
                     !.sentimentCalls = [i \in 1..n |-> Pending],
                     !.issued.summarize = OnceMore(@, n),
                     !.issued.sentiment = OnceMore(@, n)]
      ELSE AfterSummary(t, InsufficientDataText(T))

\* lines 252-305, from the fetched articles on
AfterNews(s, T, articles) ==
  LET t == [s EXCEPT !.fetchedNewsArticles = articles]
  IN  IF SummaryWanted(RecentNewsOf(articles), YearRangeOf(s.stockDetails.historical))
      THEN [t EXCEPT !.pc = "generating-summary", !.summaryCall = Pending,
                     !.issued.summary = @ + 1]
      ELSE AfterSummary(t, InsufficientDataText(T))

\* line 250 with the news fetched a second time after a rejected call
AfterFetchRealNewsRetrying(s, T, r) ==
  IF s.newsCall.st = "rejected" /\ s.issued.news < 2
  THEN [s EXCEPT !.pc = "fetching-news", !.newsCall = Pending,
                 !.issued.news = @ + 1]
  ELSE IF r.thrown THEN ReturnError(s, CatchMessage(r.error, T))
  ELSE AfterNews(s, T, r.value)

\* line 250 and the catch of line 359, from the end of fetchRealNews on
AfterFetchRealNews(s, T, r) ==
  IF r.thrown THEN ReturnError(s, CatchMessage(r.error, T))
  ELSE AfterNews(s, T, r.value)

\* lines 250 and 153-157, from the stock details on
AfterStockDetails(s, T, details, newsConfigured) ==
  LET t == [s EXCEPT !.stockDetails = details]
  IN  IF newsConfigured
      THEN [t EXCEPT !.pc = "fetching-news", !.newsCall = Pending,
                     !.issued.news = @ + 1]
      ELSE AfterFetchRealNews(t, T, fetchRealNews(T, NotIssued))

(***************************************************************************)
(* Actions                                                                 *)
(***************************************************************************)
\* lines 207-248: the request starts and runs to its first await
Submit(t, rand) ==
  /\ pc = "idle"
  /\ CanSubmit(page)
  /\ page' = Submitting(page)
  /\ ticker' = t
  /\ UNCHANGED config
  /\ IF alphaVantage
     THEN /\ quoteCall' = Pending
          /\ overviewCall' = Pending
          /\ dailyCall' = Pending
          /\ Becomes([Locals EXCEPT !.pc = "fetching-quote-and-history",
                                     !.issued.quote = @ + 1,
                                     !.issued.overview = @ + 1,
                                     !.issued.daily = @ + 1])
     ELSE /\ UNCHANGED avCalls
          /\ IF ToUpperCase(t) \notin SUPPORTED_TICKERS_FOR_FALLBACK
             THEN Becomes(ReturnError(Locals, UnsupportedMessage(ToUpperCase(t))))
             ELSE Becomes(AfterStockDetails(Locals, ToUpperCase(t),
                                            MockStockDetails(ToUpperCase(t), rand),
                                            newsapi))

\* the three calls of line 61 settle, in any order
SettleQuote(outcome) ==
  /\ quoteCall = Pending
  /\ quoteCall' = outcome
  /\ UNCHANGED << config, page, ticker, overviewCall, dailyCall, locals >>
SettleOverview(outcome) ==
  /\ overviewCall = Pending
  /\ overviewCall' = outcome
  /\ UNCHANGED << config, page, ticker, quoteCall, dailyCall, locals >>
\* the daily call under Promise.all: given up once another call is rejected
SettleDailyUnlessRejected(outcome) ==
  /\ dailyCall = Pending
  /\ quoteCall.st # "rejected" /\ overviewCall.st # "rejected"
  /\ dailyCall' = outcome
  /\ UNCHANGED << config, page, ticker, quoteCall, overviewCall, locals >>
SettleDaily(outcome) ==
  /\ dailyCall = Pending
  /\ dailyCall' = outcome
  /\ UNCHANGED << config, page, ticker, quoteCall, overviewCall, locals >>

\* lines 61-149 and 213-250 with Promise.all at line 61: a rejected daily
\* call resumes fetchAlphaVantageData before the quote call has settled
AlphaVantageSettledOrRejected ==
  /\ pc = "fetching-quote-and-history"
  /\ LET first == dailyCall.st = "rejected" /\ quoteCall.st # "rejected"
     IN  /\ first \/ (IsSettled(quoteCall) /\ IsSettled(overviewCall) /\ IsSettled(dailyCall))
         /\ LET r == IF first THEN Thrown(NoHistoryMessage(upperTicker))
                     ELSE fetchAlphaVantageData(upperTicker, quoteCall, overviewCall,
                                                dailyCall)
            IN  IF r.thrown
                THEN Becomes(ReturnError(Locals, CatchMessage(r.error, upperTicker)))
                ELSE Becomes(AfterStockDetails(Locals, upperTicker, r.value, newsapi))
  /\ UNCHANGED << config, page, ticker, avCalls >>

\* lines 61-149 and 213-250 with fetchAlphaVantageData returning null where
\* it throws: the orchestrator goes on to the fallback of lines 218-247
AlphaVantageSettledFallingBack ==
  /\ pc = "fetching-quote-and-history"
  /\ IsSettled(quoteCall) /\ IsSettled(overviewCall) /\ IsSettled(dailyCall)
  /\ LET r == fetchAlphaVantageData(upperTicker, quoteCall, overviewCall, dailyCall)
     IN  IF ~r.thrown
         THEN Becomes(AfterStockDetails(Locals, upperTicker, r.value, newsapi))
         ELSE IF upperTicker \notin SUPPORTED_TICKERS_FOR_FALLBACK
         THEN Becomes(ReturnError(Locals, UnsupportedMessage(upperTicker)))
         ELSE Becomes(AfterStockDetails(Locals, upperTicker,
                                        MockStockDetails(upperTicker, 0), newsapi))
  /\ UNCHANGED << config, page, ticker, avCalls >>

\* lines 61-149 and 213-250: Promise.allSettled resumes fetchAlphaVantageData
AlphaVantageSettled ==
  /\ pc = "fetching-quote-and-history"
  /\ IsSettled(quoteCall) /\ IsSettled(overviewCall) /\ IsSettled(dailyCall)
  /\ LET r == fetchAlphaVantageData(upperTicker, quoteCall, overviewCall, dailyCall)
     IN  IF r.thrown
         THEN Becomes(ReturnError(Locals, CatchMessage(r.error, upperTicker)))
         ELSE Becomes(AfterStockDetails(Locals, upperTicker, r.value, newsapi))
  /\ UNCHANGED << config, page, ticker, avCalls >>

\* lines 161-190 and 250-305: the news call settles
SettleNews(outcome) ==
  /\ pc = "fetching-news"
  /\ newsCall = Pending
  /\ Becomes(AfterFetchRealNews([Locals EXCEPT !.newsCall = outcome], upperTicker,
                                fetchRealNews(upperTicker, outcome)))
  /\ UNCHANGED << config, page, ticker, avCalls >>

\* lines 289-302 and 307-324: the narrative call settles
SettleSummary(outcome) ==
  /\ pc = "generating-summary"
  /\ summaryCall = Pending
  /\ LET s == [Locals EXCEPT !.summaryCall = outcome]
         r == SummaryAttempt(outcome)
     IN  IF r.thrown
         THEN Becomes(ReturnError(s, CatchMessage(r.error, upperTicker)))
         ELSE Becomes(AfterSummary(s, r.value))
  /\ UNCHANGED << config, page, ticker, avCalls >>

\* the calls of lines 317 and 323 settle, in any order
SettleSummarize(i, outcome) ==
  /\ pc = "enriching-articles"
  /\ summarizeCalls[i] = Pending
  /\ summarizeCalls' = [summarizeCalls EXCEPT ![i] = outcome]
  /\ UNCHANGED << config, page, ticker, avCalls, pc, newsCall, summaryCall,
                  sentimentCalls, stockDetails, fetchedNewsArticles,
                  financialSummaryText, result, issued >>
SettleSentiment(i, outcome) ==
  /\ pc = "enriching-articles"
  /\ sentimentCalls[i] = Pending
  /\ sentimentCalls' = [sentimentCalls EXCEPT ![i] = outcome]
  /\ UNCHANGED << config, page, ticker, avCalls, pc, newsCall, summaryCall,
                  summarizeCalls, stockDetails, fetchedNewsArticles,
                  financialSummaryText, result, issued >>

\* lines 309-357 with a time limit on the wait: the orchestrator resumes
\* with the calls that have not settled counted as rejected
ArticlesSettledOrTimedOut ==
  /\ pc = "enriching-articles"
  /\ LET Ended(c) == IF IsSettled(c) THEN c ELSE [st |-> "rejected"]
     IN  Becomes(ReturnData(Locals,
           ProcessedArticles(fetchedNewsArticles,
                             [i \in 1..Len(summarizeCalls) |-> Ended(summarizeCalls[i])],
                             [i \in 1..Len(sentimentCalls) |-> Ended(sentimentCalls[i])])))
  /\ UNCHANGED << config, page, ticker, avCalls >>

\* lines 309-357: Promise.allSettled resumes the orchestrator
ArticlesSettled ==
  /\ pc = "enriching-articles"
  /\ \A i \in 1..Len(summarizeCalls) :
       IsSettled(summarizeCalls[i]) /\ IsSettled(sentimentCalls[i])
  /\ Becomes(ReturnData(Locals, ProcessedArticles(fetchedNewsArticles,
                                                  summarizeCalls, sentimentCalls)))
  /\ UNCHANGED << config, page, ticker, avCalls >>

\* page.tsx lines 108-140: the caller resumes with the result and applies
\* it; the next request starts from nothing
NextRequest ==
  /\ pc \in {"done", "failed"}
  /\ page.awaiting
  /\ page' = Applying(page, result)
  /\ Becomes(InitialLocals)
  /\ ticker' = ""
  /\ quoteCall' = NotIssued
  /\ overviewCall' = NotIssued
  /\ dailyCall' = NotIssued
  /\ UNCHANGED config

\* page.tsx line 108: the call of the server action is rejected (the request
\* does not reach the server, or its response does not reach the page); the
\* await throws, nothing catches it and handleTickerSubmit ends there
CallRejected ==
  /\ pc # "idle"
  /\ page.awaiting
  /\ page' = [page EXCEPT !.awaiting = FALSE]
  /\ Becomes(InitialLocals)
  /\ ticker' = ""
  /\ quoteCall' = NotIssued
  /\ overviewCall' = NotIssued
  /\ dailyCall' = NotIssued
  /\ UNCHANGED config

\* the outcomes of the upstream calls
QuoteOutcomes == {Rejected(r) : r \in ProviderReasons} \cup {Fulfilled(v) : v \in QuoteValues}
OverviewOutcomes ==
  {Rejected(ProviderOther), Fulfilled(OverviewNull), Fulfilled(OverviewNoSymbol),
   Fulfilled(OverviewValid(upperTicker))}
DailyOutcomes == {Rejected(r) : r \in ProviderReasons} \cup {Fulfilled(v) : v \in DailyValues}
NewsOutcomes == {Rejected(ProviderOther)} \cup {Fulfilled(v) : v \in NewsResponses}
SummaryOutcomes == {Rejected(r) : r \in CollaboratorReasons} \cup {Fulfilled(GeneratedSummary)}
SummarizeOutcomes(i) ==
  {Rejected(ModelError), Fulfilled(SummaryFor(fetchedNewsArticles[i]))}
SentimentOutcomes == {Rejected(ModelError), Fulfilled("Positive"), Fulfilled("Unknown")}

Next ==
  \/ \E t \in Tickers : \E rand \in 0..(RandSteps - 1) : Submit(t, rand)
  \/ \E o \in QuoteOutcomes : SettleQuote(o)
  \/ \E o \in OverviewOutcomes : SettleOverview(o)
  \/ \E o \in DailyOutcomes : SettleDaily(o)
  \/ AlphaVantageSettled
  \/ \E o \in NewsOutcomes : SettleNews(o)
  \/ \E o \in SummaryOutcomes : SettleSummary(o)
  \/ \E i \in 1..Len(summarizeCalls) : \E o \in SummarizeOutcomes(i) : SettleSummarize(i, o)
  \/ \E i \in 1..Len(sentimentCalls) : \E o \in SentimentOutcomes : SettleSentiment(i, o)
  \/ ArticlesSettled
  \/ NextRequest
  \/ CallRejected

Spec == Init /\ [][Next]_vars

\* actions.ts lines 209-316: a request of the mock-data revision for a
\* ticker of MOCK_STOCKS returns a response whose historicalData is the
\* array of mockFetchStockData; returned is a response some caller holds
\* (this one or an earlier one), with the contents it had when it was
\* returned
MockRequest(t, rand) ==
  /\ ToUpperCase(t) \in DOMAIN mockRevision.stocks
  /\ LET r == mockFetchStockData(mockRevision.stocks, ToUpperCase(t),
                                 mockRevision.today, rand)
     IN  \E held \in {mockRevision.returned,
                       [historical |-> r.historical,
                        contents |-> Contents(r.stocks, r.historical)]} :
           /\ held # Null
           /\ mockRevision' =
                [mockRevision EXCEPT !.stocks = r.stocks, !.returned = held]
  /\ UNCHANGED << alphaVantage, newsapi, called, page, ticker, avCalls, locals >>
\* the date changes while the module stays loaded
DayPasses ==
  /\ mockRevision.today < MaxDays
  /\ mockRevision' = [mockRevision EXCEPT !.today = @ + 1]
  /\ UNCHANGED << alphaVantage, newsapi, called, page, ticker, avCalls, locals >>
MockNext ==
  \/ \E t \in Tickers : \E rand \in 0..(RandSteps - 1) : MockRequest(t, rand)
  \/ DayPasses
MockSpec == MockInit /\ [][MockNext]_vars

(***************************************************************************)
(* The module's functions called on their own                              *)
(***************************************************************************)
\* lengths of the article lists the news provider answers with: every list
\* of the seven kinds of article up to MaxMixedList, and lists of complete
\* and removed articles of length MaxLongList (pageSize is 15, line 166)
MaxMixedList == 3
MaxLongList == 7
\* an article of each kind; the i-th article of a list is dated i days ago
RawOfKind(kind, i) ==
  LET full == RawArticle(Str("Shares rise"), Str("https://n/1"),
                         Str("Shares rose today."), Str("Shares rose."), DateText(0 - i))
  IN  CASE kind = "complete" -> full
        [] kind = "contentOnly" -> [full EXCEPT !.description = Undefined]
        [] kind = "descriptionOnly" -> [full EXCEPT !.content = Undefined]
        [] kind = "bare" -> [full EXCEPT !.content = Undefined, !.description = Undefined]
        [] kind = "untitled" -> [full EXCEPT !.title = Undefined]
        [] kind = "removed" -> [full EXCEPT !.title = Str("[Removed]")]
        [] OTHER -> [full EXCEPT !.url = Str("")]
RawKinds ==
  {"complete", "contentOnly", "descriptionOnly", "bare", "untitled", "removed", "noUrl"}
ListsOfKinds(kinds, n) ==
  {[i \in 1..n |-> RawOfKind(k[i], i)] : k \in [1..n -> kinds]}
RawAnswers ==
  UNION {ListsOfKinds(RawKinds, n) : n \in 0..MaxMixedList}
    \cup ListsOfKinds({"complete", "removed"}, MaxLongList)

\* a call that has not returned yet, and the same call returned
Call(fn, argument) == [fn |-> fn, argument |-> argument, returned |-> NoValue]
\* lines 15-21 and 24-30: the values safeParseFloat and safeParseInt are
\* called with
NumberArguments ==
  {Null, Undefined, NaN, Infinite(FALSE), Sextillion, Cents(17034), Cents(0 - 123),
   Num(FALSE, 52, 16450000)}
    \cup {Str(t) : t \in {"", " ", "n/a", "N/A", "none", "None", "NONE", "abc",
                          "170.34", "52164500", "2650000000000", "Infinity",
                          "-Infinity", "1000000000000000000000"}}
\* lines 34-49: the values formatLargeNumber is called with, the numbers
\* next to 10^6, 10^9 and 10^12 among them
Million == Num(FALSE, 1, 0)
Billion == Num(FALSE, 1000, 0)
Trillion == Num(FALSE, 1000000, 0)
Negated(n) == [n EXCEPT !.neg = TRUE]
MagnitudeArguments ==
  NumberArguments
    \cup {Zero, Num(FALSE, 0, 99999900), Num(FALSE, 0, 99999999), Million,
          Num(FALSE, 999, 99999900), Billion, Num(FALSE, 999999, 99999900), Trillion,
          Negated(Num(FALSE, 0, 99999900)), Negated(Million), Negated(Billion),
          Negated(Trillion), Infinite(TRUE)}
\* the calls made: fetchRealNews with the news provider answering "ok", the
\* two parsers and the formatter
NewsCalls == {Call("fetchRealNews", l) : l \in RawAnswers}
NumberCalls ==
  {Call(fn, v) : fn \in {"safeParseFloat", "safeParseInt"}, v \in NumberArguments}
    \cup {Call("formatLargeNumber", v) : v \in MagnitudeArguments}
HelperInit ==
  /\ Loaded
  /\ mockRevision = NoValue
  /\ (called \in NewsCalls \/ called \in NumberCalls)

\* lines 153-191 with the provider configured and its call fulfilled
ReturnFetchRealNews ==
  /\ called # NoValue
  /\ called.fn = "fetchRealNews"
  /\ called.returned = NoValue
  /\ called' = [called EXCEPT !.returned =
                   fetchRealNews("AAPL", Fulfilled(NewsOk(called.argument)))]
  /\ UNCHANGED << alphaVantage, newsapi, mockRevision, page, ticker, avCalls, locals >>
\* lines 15-21
ReturnSafeParseFloat ==
  /\ called # NoValue
  /\ called.fn = "safeParseFloat"
  /\ called.returned = NoValue
  /\ called' = [called EXCEPT !.returned = Returned(safeParseFloat(called.argument))]
  /\ UNCHANGED << alphaVantage, newsapi, mockRevision, page, ticker, avCalls, locals >>
\* lines 24-30
ReturnSafeParseInt ==
  /\ called # NoValue
  /\ called.fn = "safeParseInt"
  /\ called.returned = NoValue
  /\ called' = [called EXCEPT !.returned = Returned(safeParseInt(called.argument))]
  /\ UNCHANGED << alphaVantage, newsapi, mockRevision, page, ticker, avCalls, locals >>
\* lines 34-49
ReturnFormatLargeNumber ==
  /\ called # NoValue
  /\ called.fn = "formatLargeNumber"
  /\ called.returned = NoValue
  /\ called' = [called EXCEPT !.returned = Returned(formatLargeNumber(called.argument))]
  /\ UNCHANGED << alphaVantage, newsapi, mockRevision, page, ticker, avCalls, locals >>
HelperNext ==
  \/ ReturnFormatLargeNumber
  \/ ReturnFetchRealNews
  \/ ReturnSafeParseFloat
  \/ ReturnSafeParseInt
HelperSpec == HelperInit /\ [][HelperNext]_vars

\* the steps that are not a user's: a call settles or a continuation runs
Progress ==
  \/ \E o \in QuoteOutcomes : SettleQuote(o)
  \/ \E o \in OverviewOutcomes : SettleOverview(o)
  \/ \E o \in DailyOutcomes : SettleDaily(o)
  \/ AlphaVantageSettled
  \/ \E o \in NewsOutcomes : SettleNews(o)
  \/ \E o \in SummaryOutcomes : SettleSummary(o)
  \/ \E i \in 1..Len(summarizeCalls) :
       \E o \in SummarizeOutcomes(i) : SettleSummarize(i, o)
  \/ \E i \in 1..Len(sentimentCalls) :
       \E o \in SentimentOutcomes : SettleSentiment(i, o)
  \/ ArticlesSettled
  \/ NextRequest
\* A request under way does not stop while a call can settle or a
\* continuation can run; nothing obliges a user to submit or a call of the
\* server action to be rejected.
Fairness == WF_vars(Progress)
FairSpec == Spec /\ Fairness

(***************************************************************************)
(* Properties                                                              *)
(***************************************************************************)
Terminal == pc \in {"done", "failed"}
HasData == result # NoValue /\ result.data # Undefined
HasError == result # NoValue /\ result.error # Undefined /\ result.error.kind # ""
\* the fetcher has been resumed with the three outcomes
FetcherDone == alphaVantage /\ pc \notin {"idle", "fetching-quote-and-history"}

\* the outcomes the claims speak of: a call that is rejected, or whose
\* payload is absent or holds no entry under its key
NoQuotePayload(call) ==
  \/ call.st = "rejected"
  \/ call.value \in {QuoteNull, QuoteNoGlobalQuote, QuoteEmpty}
NoDailyPayload(call) ==
  \/ call.st = "rejected"
  \/ call.value \in {DailyNull, DailyNoSeries, DailyEmpty}

\* C1: a request that has completed has returned an object in which exactly
\* one of data and error is set, with data when it is done and error when
\* it has failed; a request that has not completed has returned nothing.
C1_ExactlyOneOfDataAndError ==
  /\ Terminal => result # NoValue /\ (HasData # HasError)
  /\ pc = "done" => HasData /\ result.error = Undefined
  /\ pc = "failed" => HasError /\ result.data = Undefined
  /\ ~Terminal => result = NoValue
\* the exception a malformed quote payload raises has become the error
C1_Witness ==
  /\ pc = "failed"
  /\ quoteCall = Fulfilled(QuoteMalformed)
  /\ result = ErrorResult(TypeErrorMessage)

\* C2: with the quotes provider configured, a quote call that is rejected
\* or carries no 'Global Quote' entries makes the request fail with the "no
\* current quote data" message for the ticker and no data, whatever the
\* overview and daily outcomes are.
C2_MissingQuoteFails ==
  (FetcherDone /\ NoQuotePayload(quoteCall)) =>
     /\ pc = "failed"
     /\ result.error = NoQuoteMessage(upperTicker)
     /\ result.data = Undefined
\* the scenario of the empty quote payload, the daily series missing too
C2_Witness ==
  /\ pc = "failed"
  /\ ticker = "ZZZZ"
  /\ quoteCall = Fulfilled(QuoteEmpty)
  /\ dailyCall.st = "rejected"
  /\ result.error = NoQuoteMessage("ZZZZ")

\* C3: with the quotes provider configured and a quote payload that has
\* entries, a daily call that is rejected or carries no entries of 'Time
\* Series (Daily)' makes the request fail with the "no historical price
\* data" message for the ticker and no data.
C3_MissingHistoryFails ==
  (FetcherDone /\ ~NoQuotePayload(quoteCall) /\ NoDailyPayload(dailyCall)) =>
     /\ pc = "failed"
     /\ result.error = NoHistoryMessage(upperTicker)
     /\ result.data = Undefined
C3_Witness ==
  /\ pc = "failed"
  /\ quoteCall = Fulfilled(QuoteValid)
  /\ dailyCall = Fulfilled(DailyEmpty)
  /\ result.error = NoHistoryMessage(upperTicker)

\* C4: with valid quote and daily payloads, an overview that is rejected,
\* absent or without Symbol never fails the request, and the data returned
\* has the placeholder name with the ticker, "N/A" for P/E, EPS and market
\* cap, and no 52-week high or low.
C4_OverviewIsOptional ==
  (/\ FetcherDone
   /\ quoteCall = Fulfilled(QuoteValid)
   /\ ~NoDailyPayload(dailyCall)
   /\ \/ overviewCall.st = "rejected"
      \/ overviewCall.value.shape = "null"
      \/ overviewCall.value.o.Symbol = Undefined) =>
     /\ pc # "failed"
     /\ stockDetails.data.name = NamePlaceholder(upperTicker)
     /\ stockDetails.data.peRatio = Str("N/A")
     /\ stockDetails.data.eps = Str("N/A")
     /\ stockDetails.data.marketCap = Str("N/A")
     /\ stockDetails.data.week52High = Undefined
     /\ stockDetails.data.week52Low = Undefined
     /\ pc = "done" => HasData /\ result.data.stockData = stockDetails.data
C4_Witness ==
  /\ pc = "done"
  /\ overviewCall = Fulfilled(OverviewNoSymbol)
  /\ result.data.stockData.name = NamePlaceholder(upperTicker)
  /\ result.data.stockData.price = Cents(17034)

\* what a fetched article and its enriched form share
SameArticle(a, b) ==
  /\ a.id = b.id
  /\ a.title = b.title
  /\ a.source = b.source
  /\ a.articleUrl = b.articleUrl
  /\ a.articleContent = b.articleContent
  /\ a.publishedAt = b.publishedAt
  /\ a.imageUrl = b.imageUrl
\* the enriched list has the fetched articles, in their order
SameArticlesInOrder ==
  /\ Len(result.data.newsArticles) = Len(fetchedNewsArticles)
  /\ \A i \in 1..Len(fetchedNewsArticles) :
       SameArticle(result.data.newsArticles[i], fetchedNewsArticles[i])

\* C5 as stated: the enriched list has the fetched articles in their order,
\* and article i has the fallback summary iff its summary call failed, the
\* sentiment Unknown iff its sentiment call failed, and the collaborators'
\* answers otherwise.
C5_FallbackIffFailed ==
  pc = "done" =>
    /\ SameArticlesInOrder
    /\ \A i \in 1..Len(fetchedNewsArticles) :
         LET a == result.data.newsArticles[i]
         IN  /\ a.summary = FallbackSummary <=> summarizeCalls[i].st = "rejected"
             /\ summarizeCalls[i].st = "fulfilled" => a.summary = summarizeCalls[i].value
             /\ a.sentiment = "Unknown" <=> sentimentCalls[i].st = "rejected"
             /\ sentimentCalls[i].st = "fulfilled" => a.sentiment = sentimentCalls[i].value

\* C5 as amended: the enriched list has the fetched articles in their order;
\* article i has the fallback summary if its summary call failed and the
\* collaborator's summary otherwise, the sentiment Unknown if its sentiment
\* call failed and the collaborator's label otherwise.
C5_FallbackWhenFailed ==
  pc = "done" =>
    /\ SameArticlesInOrder
    /\ \A i \in 1..Len(fetchedNewsArticles) :
         LET a == result.data.newsArticles[i]
         IN  /\ summarizeCalls[i].st = "rejected" => a.summary = FallbackSummary
             /\ summarizeCalls[i].st = "fulfilled" => a.summary = summarizeCalls[i].value
             /\ sentimentCalls[i].st = "rejected" => a.sentiment = "Unknown"
             /\ sentimentCalls[i].st = "fulfilled" => a.sentiment = sentimentCalls[i].value
\* the summary of the first article and the sentiment of the second fail
C5_Witness ==
  /\ pc = "done"
  /\ Len(fetchedNewsArticles) = 2
  /\ summarizeCalls[1].st = "rejected" /\ sentimentCalls[1] = Fulfilled("Positive")
  /\ summarizeCalls[2].st = "fulfilled" /\ sentimentCalls[2].st = "rejected"
  /\ result.data.newsArticles[1].sentiment = "Positive"
  /\ result.data.newsArticles[2].summary = SummaryFor(fetchedNewsArticles[2])

\* the news fetcher could not use the provider
NewsUnavailable ==
  \/ ~newsapi
  \/ newsCall.st = "rejected"
  \/ newsCall.st = "fulfilled" /\ newsCall.value.status # "ok"
\* the quote and the daily series are valid (the ticker is a demo ticker
\* when the quotes provider is not configured)
StockDataAvailable ==
  IF alphaVantage
  THEN FetcherDone /\ quoteCall = Fulfilled(QuoteValid) /\ ~NoDailyPayload(dailyCall)
  ELSE pc # "idle" /\ upperTicker \in {"AAPL", "GOOGL", "MSFT"}

\* C6: no outcome of the news fetcher fails the request: with valid quote
\* and daily series the request never fails; with no news credential no news
\* call is issued; and when the credential is missing, the call is rejected
\* or its status is not "ok", the static set of the ticker is what is used.
C6_NewsNeverFails ==
  /\ ~newsapi => newsCall = NotIssued
  /\ StockDataAvailable => pc # "failed"
  /\ (StockDataAvailable /\ Terminal) => HasData
  /\ (StockDataAvailable /\ NewsUnavailable
        /\ pc \in {"generating-summary", "enriching-articles", "done"}) =>
       fetchedNewsArticles = MOCK_NEWS_FALLBACK(upperTicker)
C6_Witness ==
  /\ pc = "done"
  /\ newsCall.st = "rejected"
  /\ HasData
  /\ Len(result.data.newsArticles) = 1
  /\ result.data.newsArticles[1].title = "Mock Microsoft Cloud Growth"

\* C7: a narrative call that fails never fails the request; the summary is
\* "AI financial summary could not be generated: <reason>" and the data
\* returned has the stock data, the history and the enriched articles.
C7_SummaryFailureIsAbsorbed ==
  summaryCall.st = "rejected" =>
    /\ pc # "failed"
    /\ financialSummaryText =
         [kind |-> "AI financial summary could not be generated", ticker |-> "",
          reason |-> IF summaryCall.reason = EmptyError
                     THEN "Underlying AI model error." ELSE summaryCall.reason.kind]
    /\ pc = "done" =>
         /\ HasData
         /\ result.data.financialSummary = financialSummaryText
         /\ result.data.stockData = stockDetails.data
         /\ result.data.historicalData = stockDetails.historical
         /\ SameArticlesInOrder
C7_Witness ==
  /\ pc = "done"
  /\ summaryCall = Rejected(ModelError)
  /\ Len(result.data.newsArticles) = 2
  /\ result.data.financialSummary.reason = "ModelError"
  /\ result.data.newsArticles[1].summary # FallbackSummary

\* the dates of a series are strictly ascending
StrictlyAscending(points) ==
  \A i \in 1..(Len(points) - 1) : points[i].date.day < points[i + 1].date.day

C9_RecognizedConditionIsRewritten ==
  (FetcherDone /\ pc = "failed") =>
    LET reason ==
          IF quoteCall.st = "rejected" THEN quoteCall.reason
          ELSE IF ~NoQuotePayload(quoteCall) /\ dailyCall.st = "rejected"
          THEN dailyCall.reason
          ELSE ProviderOther
    IN  /\ reason = ProviderRateLimit =>
             result.error \in {RateLimitMessage(upperTicker),
                               RateLimitMessageOuter(upperTicker)}
        /\ reason = ProviderPremium => result.error = PremiumMessage(upperTicker)

\* every per-article call of the request has been issued and has settled
ArticleCallsSettled ==
  /\ Len(summarizeCalls) = Len(SliceFirst(fetchedNewsArticles, 6))
  /\ Len(sentimentCalls) = Len(summarizeCalls)
  /\ \A i \in 1..Len(summarizeCalls) :
       IsSettled(summarizeCalls[i]) /\ IsSettled(sentimentCalls[i])
ArticleCallsIssued == Len(summarizeCalls) > 0 \/ Len(sentimentCalls) > 0
QuoteAndHistoryFetched ==
  /\ stockDetails # NoValue
  /\ alphaVantage =>
       IsSettled(quoteCall) /\ IsSettled(overviewCall) /\ IsSettled(dailyCall)

\* C10 as stated: the news call is issued after the quote/history fetch, the
\* per-article calls after the news fetch, and the narrative call after all
\* per-article calls have settled.
C10_SummaryAfterEnrichment ==
  /\ newsCall # NotIssued => QuoteAndHistoryFetched
  /\ ArticleCallsIssued => QuoteAndHistoryFetched /\ newsCall # Pending
  /\ summaryCall # NotIssued => ArticleCallsSettled

\* C10 as amended: the news call is issued after the quote/history fetch,
\* the narrative call after the news fetch, and the per-article calls after
\* the narrative call has settled (or was not made).
C10_EnrichmentAfterSummary ==
  /\ newsCall # NotIssued => QuoteAndHistoryFetched
  /\ summaryCall # NotIssued => QuoteAndHistoryFetched /\ newsCall # Pending
  /\ ArticleCallsIssued =>
       QuoteAndHistoryFetched /\ newsCall # Pending /\ summaryCall # Pending
  /\ pc = "done" /\ Len(fetchedNewsArticles) > 0 => ArticleCallsSettled
\* a request that went through the four stages
C10_Witness ==
  /\ pc = "done"
  /\ alphaVantage
  /\ newsCall.st = "fulfilled"
  /\ summaryCall.st = "fulfilled"
  /\ Len(summarizeCalls) = 2

\* the number of calls a call site has made, read off its call
MadeOnce(call) == IF call = NotIssued THEN 0 ELSE 1

\* C11: within one request every upstream call is made at most once: the
\* quote, overview, daily, news and narrative calls, and for each article
\* its summary call and its sentiment call, whatever has failed; a call that
\* has been made is counted once and one that has not is counted zero times.
C11_NoCallIsReissued ==
  /\ issued.quote = MadeOnce(quoteCall)
  /\ issued.overview = MadeOnce(overviewCall)
  /\ issued.daily = MadeOnce(dailyCall)
  /\ issued.news = MadeOnce(newsCall)
  /\ issued.summary = MadeOnce(summaryCall)
  /\ Len(issued.summarize) = Len(summarizeCalls)
  /\ Len(issued.sentiment) = Len(sentimentCalls)
  /\ \A i \in 1..Len(issued.summarize) : issued.summarize[i] = 1
  /\ \A i \in 1..Len(issued.sentiment) : issued.sentiment[i] = 1
\* a request that ends after the news call, the narrative call and both
\* calls of its first article have failed
C11_Witness ==
  /\ pc = "done"
  /\ alphaVantage
  /\ overviewCall.st = "rejected"
  /\ newsCall.st = "rejected"
  /\ summaryCall.st = "rejected"
  /\ Len(summarizeCalls) > 0
  /\ summarizeCalls[1].st = "rejected"
  /\ sentimentCalls[1].st = "rejected"
  /\ issued.news = 1 /\ issued.summary = 1 /\ issued.summarize[1] = 1

\* the fetcher has returned a historical series built from a daily payload
HistoryBuilt == alphaVantage /\ FetcherDone /\ stockDetails # NoValue
\* the entries of the payload whose key is a valid date
ValidDated(ts) == {i \in 1..Len(ts) : ts[i].date.iso}
Min(a, b) == IF a <= b THEN a ELSE b

\* C12: the historical series the fetcher builds from N raw entries has at
\* most min(N, 365) points, holds the most recent valid-dated entries, is
\* strictly ascending by date and has no two points of the same date.
C12_HistoricalSeriesInvariants ==
  HistoryBuilt =>
    LET ts == dailyCall.value.ts
        h == stockDetails.historical
    IN  /\ Len(h) <= Min(Len(ts), 365)
        /\ \A i \in 1..Len(h) : \E k \in ValidDated(ts) : ts[k].date = h[i].date
        /\ \A k \in ValidDated(ts) :
             \/ \E i \in 1..Len(h) : h[i].date = ts[k].date
             \/ \A i \in 1..Len(h) : ts[k].date.day <= h[i].date.day
        /\ StrictlyAscending(h)
        /\ \A i, j \in 1..Len(h) : i # j => h[i].date.day # h[j].date.day

\* C13: after every submission the page eventually has isLoading false
\* (the submit control is enabled exactly then), however the call of
\* fetchStockDataAndNews completes; and when loading ends with an error
\* result, the error state is exactly the returned message.
C13_LoadingAlwaysEnds ==
  /\ page.isLoading ~> ~page.isLoading
  /\ [][(page.isLoading /\ ~page'.isLoading /\ HasError) =>
          page'.error = result.error]_vars

\* C14: the page never holds an error and stock data together, and from
\* the start of a submission until its result is applied it holds neither:
\* what the previous submission left is discarded when the next one starts.
C14_ErrorAndDataExclusive ==
  /\ ~(page.error # Null /\ page.stockData # Null)
  /\ (page.isLoading \/ page.awaiting) =>
       page.error = Null /\ page.stockData = Null
\* an error has been applied and the page can be submitted again
C14_Witness ==
  /\ ~page.isLoading
  /\ ~page.initialLoad
  /\ page.error = UnsupportedMessage("ZZZZ")
  /\ page.stockData = Null
  /\ pc = "idle"

\* C15: no request writes to module-level state: the static tables hold
\* the contents they were loaded with, and a response that has been
\* returned holds what it held when it was returned.
C15_ModuleStateIsNeverWritten ==
  /\ mockRevision.stocks = MOCK_STOCKS
  /\ mockRevision.returned # Null =>
       Contents(mockRevision.stocks, mockRevision.returned.historical)
         = mockRevision.returned.contents

\* the narrative collaborator has been called with a year range taken
\* from a series that is not empty
SummaryCalledWithHistory ==
  /\ summaryCall # NotIssued
  /\ stockDetails # NoValue
  /\ Len(stockDetails.historical) > 0
\* the points of a series dated one year before now or earlier
YearOld(h) == {i \in 1..Len(h) : h[i].date.day <= 0 - YearDays}

\* C16: the year-start price given to the narrative collaborator is the
\* close of the latest point dated on or before one year before now, and
\* the close of the earliest point when no point is that old; it is never
\* undefined for a series that is not empty.
C16_YearStartIsLatestYearOldPoint ==
  SummaryCalledWithHistory =>
    LET h == stockDetails.historical
        start == YearRangeOf(h).yearStartPrice
    IN  /\ start # Undefined
        /\ YearOld(h) = {} =>
             \A i \in 1..Len(h) :
               (\A j \in 1..Len(h) : h[i].date.day <= h[j].date.day) =>
                 start = h[i].price
        /\ YearOld(h) # {} =>
             \A i \in YearOld(h) :
               (\A j \in YearOld(h) : h[j].date.day <= h[i].date.day) =>
                 start = h[i].price

\* the orchestrator has passed line 287
SummaryDecided == pc \in {"generating-summary", "enriching-articles", "done"}
\* an article of the fetched ones passes the 30-day filter
SomeRecentArticle ==
  \E i \in 1..Len(fetchedNewsArticles) : 0 - fetchedNewsArticles[i].publishedAt <= 30
\* the four values of the year range are defined
YearRangeComplete ==
  LET range == YearRangeOf(stockDetails.historical)
  IN  /\ range.yearStartPrice # Undefined /\ range.yearEndPrice # Undefined
      /\ range.yearHigh # Undefined /\ range.yearLow # Undefined

\* C17: the narrative collaborator is called, exactly once, if and only
\* if an article passes the 30-day filter or the four year-range values
\* are defined; otherwise it is not called and the financial summary is
\* the insufficient-data text for the ticker.
C17_SummaryCalledIffInputs ==
  /\ ~SummaryDecided => issued.summary = 0 /\ summaryCall = NotIssued
  /\ SummaryDecided =>
       IF SomeRecentArticle \/ YearRangeComplete
       THEN issued.summary = 1 /\ summaryCall # NotIssued
       ELSE /\ issued.summary = 0 /\ summaryCall = NotIssued
            /\ financialSummaryText = InsufficientDataText(upperTicker)
            /\ pc = "done" => result.data.financialSummary
                                = InsufficientDataText(upperTicker)
\* a request is done without the collaborator having been called
C17_Witness ==
  /\ pc = "done"
  /\ issued.summary = 0
  /\ ~SomeRecentArticle /\ ~YearRangeComplete
  /\ result.data.financialSummary = InsufficientDataText("AAPL")

\* the close of a raw entry is present and parses to a number
CloseUsable(e) == safeParseFloat(e.close) # Undefined

\* C18: a raw daily entry whose date fails the ISO validation or whose
\* close is missing or does not parse is dropped from the historical
\* series and does not appear with a substituted price: every point has
\* the close of its entry; and dropping entries does not fail the request.
C18_MalformedEntriesAreDropped ==
  HistoryBuilt =>
    LET ts == dailyCall.value.ts
        h == stockDetails.historical
    IN  /\ \A k \in 1..Len(ts) :
             (~ts[k].date.iso \/ ~CloseUsable(ts[k])) =>
               \A i \in 1..Len(h) : h[i].date # ts[k].date
        /\ \A i \in 1..Len(h) :
             \E k \in 1..Len(ts) :
               /\ ts[k].date = h[i].date
               /\ CloseUsable(ts[k])
               /\ h[i].price = safeParseFloat(ts[k].close)

\* one of the three hard failures has occurred
HardFailure ==
  \/ ~alphaVantage /\ pc # "idle" /\ upperTicker \notin {"AAPL", "GOOGL", "MSFT"}
  \/ FetcherDone /\ (NoQuotePayload(quoteCall) \/ NoDailyPayload(dailyCall))
\* no call has been made after the stock details
NothingIssuedDownstream ==
  /\ issued.news = 0 /\ newsCall = NotIssued
  /\ issued.summary = 0 /\ summaryCall = NotIssued
  /\ issued.summarize = << >> /\ summarizeCalls = << >>
  /\ issued.sentiment = << >> /\ sentimentCalls = << >>

\* C19: after a hard failure (unsupported ticker without a configured
\* provider, missing quote data, missing historical data) the request is
\* in the failed state and issues no further call: the news, narrative and
\* per-article calls are never issued, and without a configured provider
\* no call at all is issued.
C19_HardFailureStopsTheRequest ==
  /\ [](HardFailure => pc = "failed")
  /\ [](pc = "failed" => NothingIssuedDownstream)
  /\ []((pc = "failed" /\ ~alphaVantage) =>
          issued.quote = 0 /\ issued.overview = 0 /\ issued.daily = 0)
  /\ [][pc = "failed" => (pc' = "idle" \/ (pc' = "failed" /\ issued' = issued))]_vars
\* a request has failed on its quote where the news provider is configured
C19_Witness ==
  /\ pc = "failed"
  /\ alphaVantage /\ newsapi
  /\ NoQuotePayload(quoteCall)
  /\ issued.quote = 1
  /\ NothingIssuedDownstream

\* the fetcher is suspended at line 61
FetcherWaiting == pc = "fetching-quote-and-history"
\* the three calls are issued together and none is examined before all
\* three have settled
IssuedTogetherExaminedAfter ==
  /\ issued.quote = issued.overview /\ issued.overview = issued.daily
  /\ FetcherWaiting =>
       quoteCall # NotIssued /\ overviewCall # NotIssued /\ dailyCall # NotIssued
  /\ FetcherDone =>
       IsSettled(quoteCall) /\ IsSettled(overviewCall) /\ IsSettled(dailyCall)
\* a pending call can settle whatever the outcomes of the other two
EachSettlesAlone ==
  /\ (FetcherWaiting /\ quoteCall = Pending) =>
       ENABLED (\E o \in QuoteOutcomes : SettleQuote(o))
  /\ (FetcherWaiting /\ overviewCall = Pending) =>
       ENABLED (\E o \in OverviewOutcomes : SettleOverview(o))
  /\ (FetcherWaiting /\ dailyCall = Pending) =>
       ENABLED (\E o \in DailyOutcomes : SettleDaily(o))
\* the stock details hold the values of the quote and of the daily series
QuoteAndDailyValuesUsed ==
  /\ stockDetails # NoValue
  /\ stockDetails.data = StockDataOf(upperTicker, quoteCall.value.q, NoOverview)
  /\ stockDetails.historical = HistoricalOf(dailyCall.value.ts)

\* C20: the three calls of the fetcher are issued before any outcome is
\* examined and each settles whatever the other two do; a rejected
\* overview call leaves the values of the quote and of the daily series in
\* use.  (A rejected quote or daily call fails the request, so the values
\* of the other two are then observed and not used.)
C20_CallsSettleIndependently ==
  /\ IssuedTogetherExaminedAfter
  /\ EachSettlesAlone
  /\ (FetcherDone /\ overviewCall.st = "rejected" /\ quoteCall = Fulfilled(QuoteValid)
        /\ dailyCall = Fulfilled(DailyValid(SeriesRecent))) => QuoteAndDailyValuesUsed
\* the overview call was rejected first and the request is done with the
\* values of the other two
C20_Witness ==
  /\ pc = "done"
  /\ alphaVantage
  /\ overviewCall.st = "rejected"
  /\ quoteCall = Fulfilled(QuoteValid)
  /\ dailyCall = Fulfilled(DailyValid(SeriesRecent))
  /\ QuoteAndDailyValuesUsed
\* the statement as written: the rejection of any one of the calls leaves
\* the values of the other two in use
C20_AnyRejectionLeavesValuesUsed ==
  /\ IssuedTogetherExaminedAfter
  /\ EachSettlesAlone
  /\ (FetcherDone /\ quoteCall = Fulfilled(QuoteValid)
        /\ dailyCall = Fulfilled(DailyValid(SeriesRecent))
        /\ overviewCall.st = "rejected") => QuoteAndDailyValuesUsed
  /\ (FetcherDone /\ quoteCall.st = "rejected"
        /\ dailyCall = Fulfilled(DailyValid(SeriesRecent))) =>
       /\ stockDetails # NoValue
       /\ stockDetails.historical = HistoricalOf(dailyCall.value.ts)
  /\ (FetcherDone /\ dailyCall.st = "rejected"
        /\ quoteCall = Fulfilled(QuoteValid)) =>
       /\ stockDetails # NoValue
       /\ stockDetails.data.price = safeParseFloat(quoteCall.value.q.price)

\* the orchestrator is suspended at line 309
Enriching == pc = "enriching-articles"
\* the number of articles processed: min(6, number of fetched articles)
Shown == Min(6, Len(fetchedNewsArticles))
\* the 2n calls have all been made and none has settled
AllArticleCallsPending ==
  /\ Len(summarizeCalls) = Shown /\ Len(sentimentCalls) = Shown
  /\ \A i \in 1..Shown : summarizeCalls[i] = Pending /\ sentimentCalls[i] = Pending
\* a pending call of an article can settle whatever the other calls do
ArticleCallsSettleAlone ==
  Enriching =>
    \A i \in 1..Shown :
      /\ summarizeCalls[i] = Pending =>
           ENABLED (\E o \in SummarizeOutcomes(i) : SettleSummarize(i, o))
      /\ sentimentCalls[i] = Pending =>
           ENABLED (\E o \in SentimentOutcomes : SettleSentiment(i, o))
\* what is recorded for article j is what its own two calls ended with
OwnOutcomesRecorded ==
  (pc = "done" /\ Shown > 0) =>
    /\ Len(result.data.newsArticles) = Shown
    /\ \A j \in 1..Shown :
         /\ IsSettled(summarizeCalls[j]) /\ IsSettled(sentimentCalls[j])
         /\ result.data.newsArticles[j].title = fetchedNewsArticles[j].title
         /\ result.data.newsArticles[j].summary =
              IF summarizeCalls[j].st = "fulfilled"
              THEN summarizeCalls[j].value ELSE FallbackSummary
         /\ result.data.newsArticles[j].sentiment =
              IF sentimentCalls[j].st = "fulfilled"
              THEN sentimentCalls[j].value ELSE "Unknown"

\* C21: for n = min(6, fetched articles) the 2n per-article calls are
\* issued together, before any of them has settled; each can settle
\* whatever the others do; what is recorded for an article depends on its
\* own two calls only; and the request is done only when all 2n calls
\* have settled.
C21_ArticlesAreIndependent ==
  /\ [](Enriching => Len(summarizeCalls) = Shown /\ Len(sentimentCalls) = Shown)
  /\ [][(~Enriching /\ Enriching') => AllArticleCallsPending']_vars
  /\ []ArticleCallsSettleAlone
  /\ []OwnOutcomesRecorded
\* two articles: both calls of the first were rejected, and the second has
\* the answers of its own calls
C21_Witness ==
  /\ pc = "done"
  /\ Shown = 2
  /\ summarizeCalls[1].st = "rejected" /\ sentimentCalls[1].st = "rejected"
  /\ summarizeCalls[2].st = "fulfilled" /\ sentimentCalls[2] = Fulfilled("Positive")
  /\ result.data.newsArticles[1].summary = FallbackSummary
  /\ result.data.newsArticles[2].summary = summarizeCalls[2].value
  /\ result.data.newsArticles[2].sentiment = "Positive"

\* a request is under way: the orchestrator is suspended at an await
UnderWay == pc \notin {"idle", "done", "failed"}
\* the calls the orchestrator was suspended on are settled once it has
\* moved on
AwaitedCallsSettled ==
  CASE pc = "fetching-quote-and-history" ->
         IsSettled(quoteCall') /\ IsSettled(overviewCall') /\ IsSettled(dailyCall')
    [] pc = "fetching-news" -> IsSettled(newsCall')
    [] pc = "generating-summary" -> IsSettled(summaryCall')
    [] pc = "enriching-articles" ->
         /\ Len(summarizeCalls') = Len(summarizeCalls)
         /\ \A i \in 1..Len(summarizeCalls) :
              IsSettled(summarizeCalls'[i]) /\ IsSettled(sentimentCalls'[i])
    [] OTHER -> TRUE
\* no call is pending
NoCallPending ==
  /\ quoteCall # Pending /\ overviewCall # Pending /\ dailyCall # Pending
  /\ newsCall # Pending /\ summaryCall # Pending
  /\ \A i \in 1..Len(summarizeCalls) :
       summarizeCalls[i] # Pending /\ sentimentCalls[i] # Pending

\* the awaits the orchestrator has still to pass
AwaitsLeft ==
  CASE pc = "fetching-quote-and-history" -> 4
    [] pc = "fetching-news" -> 3
    [] pc = "generating-summary" -> 2
    [] pc = "enriching-articles" -> 1
    [] OTHER -> 0
\* the calls that are pending
PendingCalls ==
  Cardinality({c \in {"quote", "overview", "daily", "news", "summary"} :
                 CASE c = "quote" -> quoteCall = Pending
                   [] c = "overview" -> overviewCall = Pending
                   [] c = "daily" -> dailyCall = Pending
                   [] c = "news" -> newsCall = Pending
                   [] OTHER -> summaryCall = Pending})
  + Cardinality({i \in 1..Len(summarizeCalls) : summarizeCalls[i] = Pending})
  + Cardinality({i \in 1..Len(sentimentCalls) : sentimentCalls[i] = Pending})
\* a measure of what a request has still to do: no request has more than
\* 2 * 6 calls pending at an await
Remaining == AwaitsLeft * 13 + PendingCalls

\* a step of the request is possible: a call the orchestrator awaits is
\* pending and can settle, or they have all settled, which is the guard of
\* the step that resumes the orchestrator
CanProceed ==
  CASE pc = "fetching-quote-and-history" ->
         /\ quoteCall = Pending \/ IsSettled(quoteCall)
         /\ overviewCall = Pending \/ IsSettled(overviewCall)
         /\ dailyCall = Pending \/ IsSettled(dailyCall)
         /\ quoteCall = Pending => ENABLED (\E o \in QuoteOutcomes : SettleQuote(o))
         /\ overviewCall = Pending =>
              ENABLED (\E o \in OverviewOutcomes : SettleOverview(o))
         /\ dailyCall = Pending => ENABLED (\E o \in DailyOutcomes : SettleDaily(o))
    [] pc = "fetching-news" -> newsCall = Pending
    [] pc = "generating-summary" ->
         /\ summaryCall = Pending
         /\ ENABLED (\E o \in SummaryOutcomes : SettleSummary(o))
    [] pc = "enriching-articles" ->
         /\ \A i \in 1..Len(summarizeCalls) :
              /\ summarizeCalls[i] = Pending =>
                   ENABLED (\E o \in SummarizeOutcomes(i) : SettleSummarize(i, o))
              /\ sentimentCalls[i] = Pending =>
                   ENABLED (\E o \in SentimentOutcomes : SettleSentiment(i, o))
         /\ NoCallPending => ENABLED ArticlesSettled
    [] OTHER -> FALSE

\* C22: when every call that is issued settles, a request under way
\* returns: while it is under way a call can settle or the orchestrator
\* can run, and every such step brings it nearer to its return, so that
\* under the fairness of FairSpec it returns.  And the orchestrator has no
\* timeout: it moves on from an await only when every call it awaits there
\* has settled, and has returned only with no call pending.
C22_ReturnsWhenCallsSettle ==
  /\ [](UnderWay => CanProceed)
  /\ [](UnderWay => PendingCalls <= 12 /\ Remaining > 0)
  /\ [][(UnderWay /\ pc' # "idle") => Remaining' < Remaining]_vars
  /\ [][(UnderWay /\ pc' # pc /\ pc' # "idle") => AwaitedCallsSettled]_vars
  /\ [](Terminal => NoCallPending /\ Remaining = 0)
\* a request has returned after every one of its seven kinds of call settled
C22_Witness ==
  /\ pc = "done"
  /\ issued.quote = 1 /\ issued.news = 1 /\ issued.summary = 1
  /\ Len(summarizeCalls) = 2
  /\ NoCallPending

\* the points of a series dated within the last 365 days, and all its
\* points when there is none
InLastYear(h) == {i \in 1..Len(h) : 0 - h[i].date.day <= 365}
HighLowPoints(h) == IF InLastYear(h) = {} THEN 1..Len(h) ELSE InLastYear(h)

\* C23: the 52-week high and low given to the narrative collaborator are
\* the maximum and the minimum close over the points dated within the
\* last 365 days, and over the whole series when no point is in that
\* window.
C23_HighLowOverLastYear ==
  SummaryCalledWithHistory =>
    LET h == stockDetails.historical
        range == YearRangeOf(h)
        over == HighLowPoints(h)
    IN  /\ \E i \in over : range.yearHigh = h[i].price
        /\ \A i \in over : NumLeq(h[i].price, range.yearHigh)
        /\ \E i \in over : range.yearLow = h[i].price
        /\ \A i \in over : NumLeq(range.yearLow, h[i].price)
\* the collaborator was called with the high and low of a series that has
\* no point in the window
C23_Witness ==
  /\ SummaryCalledWithHistory
  /\ InLastYear(stockDetails.historical) = {}
  /\ YearRangeOf(stockDetails.historical).yearHigh = Cents(15500)
  /\ YearRangeOf(stockDetails.historical).yearLow = Cents(15000)

\* C30: whenever the historical series of a request is not empty, the
\* 52-week high and low computed by the orchestrator are defined and
\* yearLow <= yearEndPrice <= yearHigh, yearEndPrice being the close of
\* the most recent point.
C30_YearEndWithinHighLow ==
  (pc \in {"generating-summary", "enriching-articles", "done"}
     /\ stockDetails # NoValue /\ Len(stockDetails.historical) > 0) =>
    LET h == stockDetails.historical
        range == YearRangeOf(h)
    IN  /\ range.yearHigh # Undefined /\ range.yearLow # Undefined
        /\ IsNum(range.yearHigh) /\ IsNum(range.yearLow)
        /\ \E i \in 1..Len(h) :
             /\ \A j \in 1..Len(h) : h[j].date.day <= h[i].date.day
             /\ range.yearEndPrice = h[i].price
        /\ NumLeq(range.yearLow, range.yearEndPrice)
        /\ NumLeq(range.yearEndPrice, range.yearHigh)
\* a series with points inside and outside the window, the most recent
\* close being its high
C30_Witness ==
  /\ pc = "done"
  /\ alphaVantage
  /\ dailyCall = Fulfilled(DailyValid(SeriesRecent))
  /\ YearRangeOf(stockDetails.historical).yearEndPrice = Cents(17034)
  /\ YearRangeOf(stockDetails.historical).yearHigh = Cents(17034)
  /\ YearRangeOf(stockDetails.historical).yearLow = Cents(16911)

\* fetchRealNews has returned for the provider's answer raw
NewsReturned == called # NoValue /\ called.fn = "fetchRealNews" /\ called.returned # NoValue
\* a value is missing: undefined or the empty text
Missing(v) == v = Undefined \/ v = Str("")
\* the article is one the statement has dropped
Dropped(a) ==
  \/ Missing(a.title)
  \/ a.title = Str("[Removed]")
  \/ Missing(a.url)
  \/ Missing(a.content) /\ Missing(a.description)
\* the indices of the articles that survive, in the provider's order
RECURSIVE Survivors(_, _)
Survivors(raw, i) ==
  IF i > Len(raw) THEN << >>
  ELSE IF Dropped(raw[i]) THEN Survivors(raw, i + 1)
  ELSE << i >> \o Survivors(raw, i + 1)

\* C24: on the provider path an article is dropped if and only if its
\* title is missing or "[Removed]", its URL is missing, or it has neither
\* content nor description; the list returned is the first 6 survivors in
\* the provider's order.
C24_DroppedIffUnusable ==
  NewsReturned =>
    LET raw == called.argument
        out == called.returned.value
        kept == Survivors(raw, 1)
    IN  /\ Len(out) = Min(6, Len(kept))
        /\ \A i \in 1..Len(out) :
             /\ out[i].publishedAt = raw[kept[i]].publishedAt.day
             /\ out[i].title = raw[kept[i]].title.str
             /\ out[i].articleUrl = raw[kept[i]].url.str

\* one of the two parsers has returned
ParserReturned ==
  /\ called # NoValue
  /\ called.fn \in {"safeParseFloat", "safeParseInt"}
  /\ called.returned # NoValue
\* the parser that was called, applied to a value
SameParser(v) ==
  IF called.fn = "safeParseFloat" THEN safeParseFloat(v) ELSE safeParseInt(v)
\* null, undefined, the empty text, and "n/a" and "none" in any case
SentinelArguments ==
  {Null, Undefined, Str(""), Str("n/a"), Str("N/A"), Str("none"), Str("None"),
   Str("NONE")}

\* C25: the normalizer returns undefined for null, undefined, the empty
\* text and "n/a" or "none" in any case; it returns undefined when the
\* parse is not finite and the parsed number otherwise, and never NaN; and
\* applied to a result that is defined it returns the same number.
C25_NormalizerIsFiniteAndIdempotent ==
  ParserReturned =>
    LET x == called.argument
        r == called.returned.value
    IN  /\ x \in SentinelArguments => r = Undefined
        /\ r # NaN
        /\ r = Undefined \/ IsNum(r)
        /\ r # Undefined => SameParser(r) = r

\* formatLargeNumber has returned
FormatterReturned ==
  called # NoValue /\ called.fn = "formatLargeNumber" /\ called.returned # NoValue
\* the number an argument stands for, or undefined when it has none
NumberOf(x) ==
  IF x \in {Undefined, Null, NaN} THEN Undefined
  ELSE IF IsStr(x) THEN safeParseFloat(x)
  ELSE x
\* |v| >= k * 10^6, a number being m * 10^6 + c / 100 with c / 100 < 10^6
AtLeastMillions(v, k) == IsInfinite(v) \/ v = Sextillion \/ v.m >= k

\* C26: the formatter returns "N/A" for an argument that is undefined or
\* does not parse, and otherwise chooses the suffix by the absolute value:
\* "T" from 10^12, "B" from 10^9 to 10^12, "M" from 10^6 to 10^9, and none
\* below 10^6; so 999,999 has no suffix and 1,000,000 has "M".
C26_SuffixByMagnitude ==
  FormatterReturned =>
    LET v == NumberOf(called.argument)
        r == called.returned.value
    IN  /\ v = Undefined => r = Str("N/A")
        /\ v # Undefined =>
             /\ r # Str("N/A")
             /\ r.shown = v
             /\ r.suffix = "T" <=> AtLeastMillions(v, 1000000)
             /\ r.suffix = "B" <=> AtLeastMillions(v, 1000) /\ ~AtLeastMillions(v, 1000000)
             /\ r.suffix = "M" <=> AtLeastMillions(v, 1) /\ ~AtLeastMillions(v, 1000)
             /\ r.suffix = "" <=> ~AtLeastMillions(v, 1)
        /\ called.argument = Num(FALSE, 0, 99999900) => r.suffix = ""
        /\ called.argument = Num(FALSE, 1, 0) => r.suffix = "M"
\* the formatter has returned for 1,000,000
C26_Witness ==
  /\ FormatterReturned
  /\ called.argument = Num(FALSE, 1, 0)
  /\ called.returned.value = [shown |-> Num(FALSE, 1, 0), suffix |-> "M"]

\* the request run again from its start with the outcomes the calls have
\* now, each call examined in the order of the text of the function
AfterOutcomesInOrder ==
  LET s0 == [InitialLocals EXCEPT !.issued = issued]
      f == fetchAlphaVantageData(upperTicker, quoteCall, overviewCall, dailyCall)
      s1 == IF alphaVantage
            THEN IF f.thrown
                 THEN ReturnError(s0, CatchMessage(f.error, upperTicker))
                 ELSE AfterStockDetails(s0, upperTicker, f.value, newsapi)
            ELSE IF stockDetails = NoValue
                 THEN ReturnError(s0, UnsupportedMessage(upperTicker))
                 ELSE AfterStockDetails(s0, upperTicker, stockDetails, newsapi)
      s2 == IF s1.pc = "fetching-news"
            THEN AfterFetchRealNews([s1 EXCEPT !.newsCall = newsCall], upperTicker,
                                    fetchRealNews(upperTicker, newsCall))
            ELSE s1
      s3 == IF s2.pc = "generating-summary"
            THEN AfterSummary([s2 EXCEPT !.summaryCall = summaryCall],
                              SummaryAttempt(summaryCall).value)
            ELSE s2
  IN  IF s3.pc = "enriching-articles"
      THEN ReturnData(s3, ProcessedArticles(s3.fetchedNewsArticles, summarizeCalls,
                                            sentimentCalls))
      ELSE s3
\* the calls of line 61 have all settled
FundamentalsSettled ==
  IsSettled(quoteCall) /\ IsSettled(overviewCall) /\ IsSettled(dailyCall)

\* C27: the value the request returns is a function of the outcomes of the
\* upstream calls alone: whatever the order in which the three fundamentals
\* calls and the per-article calls settled, it is the value obtained from
\* those outcomes taken in the order of the text; and when the quote call
\* and the daily call have both failed, the error is the quote's.
C27_ResultIndependentOfSettleOrder ==
  /\ (Terminal /\ alphaVantage) => FundamentalsSettled
  /\ Terminal =>
       /\ pc = AfterOutcomesInOrder.pc
       /\ result = AfterOutcomesInOrder.result
  /\ (Terminal /\ alphaVantage /\ quoteCall.st = "rejected" /\ dailyCall.st = "rejected") =>
       result = ErrorResult(NoQuoteMessage(upperTicker))
\* the request has failed with the quote call and the daily call rejected
C27_Witness ==
  /\ pc = "failed"
  /\ quoteCall.st = "rejected"
  /\ dailyCall.st = "rejected"
  /\ overviewCall.st = "fulfilled"
  /\ result = ErrorResult(NoQuoteMessage(upperTicker))

\* the details are the placeholder quote and history of lines 223-247
IsPlaceholder(details) ==
  /\ details # NoValue
  /\ details \in {MockStockDetails(upperTicker, rand) : rand \in 0..(RandSteps - 1)}
\* fetchAlphaVantageData has ended, and ended by throwing
FetcherEnded == pc \notin {"idle", "fetching-quote-and-history"}
FetcherFailed ==
  /\ alphaVantage
  /\ FetcherEnded
  /\ fetchAlphaVantageData(upperTicker, quoteCall, overviewCall, dailyCall).thrown

\* C28: with the quotes provider configured the placeholder quote and
\* history are never used or returned; a failure of the fetcher ends the
\* request with an error, for a demo ticker as for any other; the
\* placeholder is used only with the provider unconfigured.
C28_NoPlaceholderWhenConfigured ==
  /\ alphaVantage =>
       /\ ~IsPlaceholder(stockDetails)
       /\ (result # NoValue /\ result.data # Undefined) =>
            ~IsPlaceholder([data |-> result.data.stockData,
                            historical |-> result.data.historicalData])
  /\ FetcherFailed =>
       /\ pc = "failed"
       /\ HasError
       /\ result.data = Undefined
       /\ stockDetails = NoValue
  /\ IsPlaceholder(stockDetails) =>
       ~alphaVantage /\ upperTicker \in SUPPORTED_TICKERS_FOR_FALLBACK
\* the provider is configured and the request for AAPL has failed in the
\* fetcher
C28_Witness ==
  /\ alphaVantage
  /\ upperTicker = "AAPL"
  /\ FetcherFailed
  /\ pc = "failed"
  /\ result.data = Undefined

\* a call of fetchStockDataAndNews made by the page has not been answered,
\* or its answer has not been applied yet
InFlight == pc # "idle"
\* handleTickerSubmit starts in this step
Starts == ~page.awaiting /\ page'.awaiting
\* handleTickerSubmit resumes with the result in this step
Applies == page.awaiting /\ ~page'.awaiting /\ ~page'.isLoading

\* C29: at most one call is in flight per page: while a call is in flight
\* the page is loading and nothing on it can submit, so handleTickerSubmit
\* starts only with no call in flight; and a result is applied only to the
\* page state its own submission left, that of the request just answered.
C29_OneCallInFlight ==
  /\ [](page.isLoading => ~CanSubmit(page))
  /\ [](InFlight => (page.isLoading /\ page.awaiting /\ ~CanSubmit(page)))
  /\ [][Starts => (~InFlight /\ ~page.isLoading /\ InFlight'
                     /\ page' = Submitting(page))]_vars
  /\ [][Applies => (/\ pc \in {"done", "failed"}
                     /\ page.isLoading /\ page.stockData = Null /\ page.error = Null
                     /\ page' = Applying(page, result)
                     /\ ~InFlight')]_vars
\* a call is answered with data and the answer is not applied yet
C29_Witness ==
  /\ pc = "done"
  /\ page.isLoading
  /\ page.awaiting
  /\ ~page.initialLoad
  /\ ~CanSubmit(page)

====
